---- MODULE Spec2Model ----
(***************************************************************************)
(* The PTY session manager of src-tauri/src/pty.rs: the session registry   *)
(* (PtyState), the four commands pty_spawn / pty_write / pty_resize /      *)
(* pty_kill, and the two background threads every spawn starts (reader     *)
(* thread, wait thread).  Threads interleave at every access to shared     *)
(* state: the atomic counter, each mutex acquisition, each blocking OS     *)
(* call and each emitted event.                                            *)
(***************************************************************************)
EXTENDS Integers, Sequences, FiniteSets, TLC

\* ------------------------------------------------------------------ bounds
\* Children started (calls of spawn_command that succeed) in one run.
MaxSpawns == 2
\* Command invocations (spawn, write, resize, kill) in one run.
MaxCalls == 2
\* Bytes one child writes to its terminal.
MaxOut == 1
\* Bytes the child writes where the content of the output is followed.
MaxStream == 2
\* Mutexes that get poisoned in one run.
MaxPanics == 1

\* ------------------------------------------------------- program constants
\* let mut buf = [0u8; 4096]
BufSize == 4096
\* .unwrap_or(1)
ExitSentinel == 1

Callers == {1, 2}
Handles == 1..MaxSpawns

\* ------------------------------------------------------------ u32 values
\* A u32 is kept exactly, as its two 16-bit halves <<high, low>>.
Half == 65536
U32Of(n) == <<n \div Half, n % Half>>
NoId == <<-1, -1>>
\* next_id: AtomicU32::new(1)
FirstId == U32Of(1)
\* Mutant: the counter is not advanced.
WrappingIncStuck(v) == v

\* fetch_add(1, ..) on an AtomicU32 wraps around on overflow.
WrappingInc(v) ==
  IF v[2] + 1 < Half THEN <<v[1], v[2] + 1>> ELSE <<(v[1] + 1) % Half, 0>>
Less(a, b) == a[1] < b[1] \/ (a[1] = b[1] /\ a[2] < b[2])

\* ------------------------------------------------------------ conversions
\* Characters are their code points; a string is a sequence of them.
Char0 == 48
CharPlus == 43

\* v divided by ten: <<quotient, remainder>>.
DivTen(v) ==
  LET t == (v[1] % 10) * Half + v[2]
  IN  <<(<<v[1] \div 10, t \div 10>>), t % 10>>

RECURSIVE Digits(_)
Digits(v) ==
  LET qr == DivTen(v)
  IN  IF qr[1] = <<0, 0>> THEN <<Char0 + qr[2]>> ELSE Append(Digits(qr[1]), Char0 + qr[2])

\* id.to_string(): the decimal digits of a u32, no sign, no leading zero.
to_string(v) == Digits(v)

\* acc * 10 + d, checked: NoId on overflow of u32.
MulTenAdd(acc, d) ==
  LET lo == acc[2] * 10 + d
      hi == acc[1] * 10 + lo \div Half
  IN  IF acc = NoId \/ hi >= Half THEN NoId ELSE <<hi, lo % Half>>

RECURSIVE DigitsValue(_)
DigitsValue(s) ==
  IF s = <<>> THEN <<0, 0>>
  ELSE MulTenAdd(DigitsValue(SubSeq(s, 1, Len(s) - 1)), s[Len(s)] - Char0)

\* session_id.parse::<u32>(): an optional '+', then one or more decimal
\* digits, the value within u32; anything else is an error (NoId here).
ParseU32(s) ==
  LET body == IF s # <<>> /\ s[1] = CharPlus THEN SubSeq(s, 2, Len(s)) ELSE s
  IN  IF body = <<>> \/ \E i \in 1..Len(body) : body[i] \notin Char0..(Char0 + 9)
        THEN NoId
        ELSE DigitsValue(body)

\* String::from_utf8_lossy, on bytes.  At(b, i) is safe_get: 0 past the end.
At(b, i) == IF i <= Len(b) THEN b[i] ELSE 0
IsCont(x) == x \in 128..191
Replacement == <<239, 191, 189>>

\* One step of the decoder at the front of b: <<valid, bytes consumed>>.
\* An invalid sequence is the maximal prefix of a well-formed character.
Utf8Step(b) ==
  LET b1 == b[1]
      b2 == At(b, 2)
      second3 == \/ b1 = 224 /\ b2 \in 160..191
                 \/ b1 \in 225..236 /\ b2 \in 128..191
                 \/ b1 = 237 /\ b2 \in 128..159
                 \/ b1 \in 238..239 /\ b2 \in 128..191
      second4 == \/ b1 = 240 /\ b2 \in 144..191
                 \/ b1 \in 241..243 /\ b2 \in 128..191
                 \/ b1 = 244 /\ b2 \in 128..143
  IN  IF b1 < 128 THEN <<TRUE, 1>>
      ELSE IF b1 \in 194..223
        THEN IF IsCont(b2) THEN <<TRUE, 2>> ELSE <<FALSE, 1>>
      ELSE IF b1 \in 224..239
        THEN IF ~second3 THEN <<FALSE, 1>>
             ELSE IF ~IsCont(At(b, 3)) THEN <<FALSE, 2>> ELSE <<TRUE, 3>>
      ELSE IF b1 \in 240..244
        THEN IF ~second4 THEN <<FALSE, 1>>
             ELSE IF ~IsCont(At(b, 3)) THEN <<FALSE, 2>>
             ELSE IF ~IsCont(At(b, 4)) THEN <<FALSE, 3>> ELSE <<TRUE, 4>>
      ELSE <<FALSE, 1>>

RECURSIVE from_utf8_lossy(_)
from_utf8_lossy(b) ==
  IF b = <<>> THEN <<>>
  ELSE LET st == Utf8Step(b)
           rest == SubSeq(b, st[2] + 1, Len(b))
       IN  IF st[1] THEN SubSeq(b, 1, st[2]) \o from_utf8_lossy(rest)
           ELSE Replacement \o from_utf8_lossy(rest)

\* ------------------------------------------------------------------ state
VARIABLES
  next_id,    \* PtyState.next_id
  sessions,   \* PtyState.sessions: the entries <<SessionId, handle of the Session>>
  lock,       \* the owner of every Mutex: sessions, and master/writer/killer of each Session
  poisoned,   \* the mutexes that are poisoned
  nchild,     \* children started so far; the next child is handle nchild + 1
  sid,        \* the id fetch_add gave to the spawn of handle h (NoId before)
  child,      \* the child process of h: "none", "alive" or "dead"
  exitcode,   \* the exit code of a dead child
  killsig,    \* whether the killer of h has delivered its signal
  out,        \* bytes the child wrote that the reader has not read yet
  written,    \* every byte the child wrote, in order
  size,       \* the geometry of the master PTY of h
  input,      \* the bytes written to the child's input through writer
  refs,       \* the strong count of the Arc<Session> of h: the clones that are alive
  reader,     \* the reader thread of h: its position and the chunk in buf
  chunks,     \* the chunks the reader of h has read, in order
  waiter,     \* the wait thread of h: its position and the code it holds
  events,     \* the events emitted for h, in order
  call,       \* the command each caller is executing
  ret,        \* the value the step just taken returned to a caller (NoRet: none)
  ncalls,     \* commands invoked so far
  issued,     \* the ids fetch_add has handed out, in order
  returned,   \* the id strings successful spawns have returned, in order
  removed,    \* the ids whose registry entry has been removed
  url,        \* the WebDAV URL being resolved: the arguments and the results
  hosts_db,   \* the file hosts.db: whether it exists and the rows of its table hosts
  hosts_json, \* the file hosts.json: the hosts in it, if it exists
  keychain,   \* the credential store: the password kept for each host id
  done,       \* the last command on the hosts: its argument, its result and
              \* the credential store and the rows it started from
  dav         \* the webdav_push in progress: its position, the URLs it resolved
              \* and the requests it has sent, in order, with their answers

regVars == <<next_id, sessions>>
histVars == <<issued, returned, removed>>
lockVars == <<lock, poisoned>>
childVars == <<nchild, sid, child, exitcode, killsig, out, written>>
resVars == <<size, input, refs>>
threadVars == <<reader, chunks, waiter, events>>
callVars == <<call, ncalls>>
\* The state outside the PTY sessions; no command on a session touches it.
storeVars == <<hosts_db, hosts_json, keychain, done>>
appVars == <<url, storeVars, dav>>
ptyVars == <<regVars, histVars, lockVars, childVars, resVars, threadVars, callVars, ret>>
vars == <<regVars, histVars, lockVars, childVars, resVars, threadVars, callVars, ret, appVars>>

\* ------------------------------------------------------------------ names
Free == <<"free", 0>>
Caller(c) == <<"caller", c>>
Waiter(h) == <<"waiter", h>>
SessionsLock == <<"sessions", 0>>
Locks == {SessionsLock} \cup ({"master", "writer", "killer"} \X Handles)

\* Mutant: one mutex per Session guards all three of its resources.
GuardOfSession(op) == "master"

\* The guard each command takes on the Session it found.
GuardOf(op) == IF op = "write" THEN "writer" ELSE IF op = "resize" THEN "master" ELSE "killer"

\* What the commands return (the Err strings of the source; Ok is "ok").
Ok == "ok"
InvalidSessionId == "invalid session_id"
UnknownSession == "Unavailable session"
StatePoisoned == "PtyState poisoned"
OsError == "os error"
PoisonedOf(g) == IF g = "writer" THEN "writer poisoned"
                 ELSE IF g = "master" THEN "master poisoned" ELSE "killer poisoned"

\* ----------------------------------------------------------------- inputs
\* The geometry spawn is given, and the geometries resize is given.
SpawnGeometry == {<<80, 24>>}
Geometries == {<<120, 40>>}
\* The text a write is given: "x".
WriteData == {<<120>>}
ExitCodes == {0}
KilledCode == {2}
SpawnSteps == {"openpty", "take_writer", "try_clone_reader", "spawn_command"}
\* The session_id strings callers pass: the ids spawn can return, one id
\* beyond them, and a string that is no number.
SessionIdArgs == {to_string(U32Of(n)) : n \in 1..(MaxSpawns + 1)} \cup {<<120>>}

Idle == [pc |-> "idle", op |-> "none", id |-> NoId, h |-> 0, arg |-> <<>>,
         afterExit |-> FALSE, afterRemoved |-> FALSE]
NoRet == [op |-> "none", id |-> NoId, res |-> "none",
          afterExit |-> FALSE, afterRemoved |-> FALSE, spawned |-> FALSE]

\* Whether an exit event has been emitted for an id.
ExitEmitted(h) == \E i \in 1..Len(events[h]) : events[h][i].type = "exit"
ExitEmittedFor(id) == \E h \in Handles : sid[h] = id /\ ExitEmitted(h)

\* No URL is being resolved.
NoUrl == [input |-> <<>>, folder |-> {}, filename |-> <<>>,
          res |-> [ok |-> FALSE, v |-> <<>>, err |-> "pending"],
          resf |-> [ok |-> FALSE, v |-> <<>>, err |-> "pending"]]

\* The most hosts there are.
MaxHosts == 1
HostIds == 1..MaxHosts

\* Option<T>: None, Some(x), and what a Some holds.
None == {}
Some(x) == {x}
Unwrap(o) == CHOOSE x \in o : TRUE

\* An empty config directory, an empty credential store, no command yet.
NoDb == [exists |-> FALSE, rows |-> [id \in HostIds |-> None]]
NoEntries == [id \in HostIds |-> None]
NoCommand == [op |-> "none", ok |-> TRUE, hosts |-> [id \in HostIds |-> None],
              kc0 |-> NoEntries, rows0 |-> [id \in HostIds |-> None]]
StoreIdle ==
  /\ hosts_db = NoDb
  /\ hosts_json = None
  /\ keychain = NoEntries
  /\ done = NoCommand

\* No webdav_push has been called.
NoPush == [pc |-> "idle", folder |-> <<>>, url_db |-> <<>>, url_json |-> <<>>,
           cur |-> <<>>, parts |-> <<>>, log |-> <<>>, res |-> "none"]

\* Nothing has happened outside the PTY sessions.
AppIdle == url = NoUrl /\ StoreIdle /\ dav = NoPush

\* PtyState::default(): counter 1, empty registry; nothing spawned.
PtyInit ==
  /\ next_id = FirstId
  /\ sessions = {}
  /\ lock = [l \in Locks |-> Free]
  /\ poisoned = {}
  /\ nchild = 0
  /\ sid = [h \in Handles |-> NoId]
  /\ child = [h \in Handles |-> "none"]
  /\ exitcode = [h \in Handles |-> 0]
  /\ killsig = [h \in Handles |-> FALSE]
  /\ out = [h \in Handles |-> <<>>]
  /\ written = [h \in Handles |-> <<>>]
  /\ size = [h \in Handles |-> <<0, 0>>]
  /\ input = [h \in Handles |-> <<>>]
  /\ refs = [h \in Handles |-> 0]
  /\ reader = [h \in Handles |-> [pc |-> "none", buf |-> <<>>]]
  /\ chunks = [h \in Handles |-> <<>>]
  /\ waiter = [h \in Handles |-> [pc |-> "none", code |-> 0]]
  /\ events = [h \in Handles |-> <<>>]
  /\ call = [c \in Callers |-> Idle]
  /\ ret = NoRet
  /\ ncalls = 0
  /\ issued = <<>>
  /\ returned = <<>>
  /\ removed = {}

Init == PtyInit /\ AppIdle

\* ------------------------------------------------------- Arc<Session>
\* Arc::clone of the Session of h, and the drop of one clone.  The Session,
\* with its master, writer and killer, is released by the drop that brings
\* the count to 0.
ArcClone(r, h) == [r EXCEPT ![h] = r[h] + 1]
ArcDrop(r, h) == [r EXCEPT ![h] = r[h] - 1]
\* The drop of the clones held by entries that leave the registry.
DropEntries(r, es) == [h \in Handles |-> r[h] - Cardinality({e \in es : e[2] = h})]
\* The entries under id.
EntriesOf(m, id) == {e \in m : e[1] = id}

\* --------------------------------------------------------- the registry
Keys(m) == {e[1] : e \in m}
\* HashMap::insert: the entry under id is replaced.
MapInsert(m, id, h) == {e \in m : e[1] # id} \cup {<<id, h>>}
\* HashMap::remove
MapRemove(m, id) == {e \in m : e[1] # id}
\* HashMap::get(..).cloned(): the handle under id, 0 when absent.
MapGet(m, id) == IF id \in Keys(m) THEN (CHOOSE e \in m : e[1] = id)[2] ELSE 0

Return(c, r) ==
  /\ call' = [call EXCEPT ![c] = Idle]
  /\ ret' = r

Result(c, res) ==
  [op |-> call[c].op, id |-> call[c].id, res |-> res,
   afterExit |-> call[c].afterExit, afterRemoved |-> call[c].afterRemoved,
   spawned |-> \E i \in 1..Len(issued) : issued[i] = call[c].id]

\* ------------------------------------------------------------- pty_spawn
\* openpty, take_writer, try_clone_reader, spawn_command: each may fail and
\* return its error; when all succeed a child is running on a new PTY.
\* Mutant: the id is taken before the child is started, so a spawn that
\* fails has consumed one.
SpawnFailAfterFetch(c) ==
  /\ call[c].pc = "idle" /\ ncalls < MaxCalls
  /\ \E step \in SpawnSteps :
       /\ ncalls' = ncalls + 1
       /\ call' = call
       /\ next_id' = WrappingInc(next_id)
       /\ ret' = [NoRet EXCEPT !.op = "spawn", !.res = OsError]
  /\ UNCHANGED <<sessions, histVars, lockVars, childVars, resVars, threadVars>>
  /\ UNCHANGED appVars

SpawnFail(c) ==
  /\ call[c].pc = "idle" /\ ncalls < MaxCalls
  /\ \E step \in SpawnSteps :
       /\ ncalls' = ncalls + 1
       /\ call' = call
       /\ ret' = [NoRet EXCEPT !.op = "spawn", !.res = OsError]
  /\ UNCHANGED <<regVars, histVars, lockVars, childVars, resVars, threadVars>>
  /\ UNCHANGED appVars

SpawnChild(c) ==
  /\ call[c].pc = "idle" /\ ncalls < MaxCalls /\ nchild < MaxSpawns
  /\ \E g \in SpawnGeometry :
       LET h == nchild + 1 IN
       /\ nchild' = h
       /\ child' = [child EXCEPT ![h] = "alive"]
       /\ size' = [size EXCEPT ![h] = g]
       /\ call' = [call EXCEPT ![c] = [Idle EXCEPT !.pc = "fetch", !.op = "spawn", !.h = h]]
  /\ ncalls' = ncalls + 1
  /\ ret' = NoRet
  /\ UNCHANGED <<regVars, histVars, lockVars, sid, exitcode, killsig, out, written,
                 input, refs, threadVars>>
  /\ UNCHANGED appVars

\* Mutant: the id is taken from a plain load of the counter, which is stored
\* back afterwards by whoever loaded it last (not one atomic step): two
\* spawns that overlap get the same id.
SpawnFetchLoad(c) ==
  /\ call[c].pc = "fetch"
  /\ next_id' = IF \E d \in Callers : d # c /\ call[d].pc = "fetch"
                  THEN next_id ELSE WrappingInc(next_id)
  /\ sid' = [sid EXCEPT ![call[c].h] = next_id]
  /\ issued' = Append(issued, next_id)
  /\ call' = [call EXCEPT ![c].pc = "lock", ![c].id = next_id, ![c].arg = to_string(next_id)]
  /\ ret' = NoRet
  /\ refs' = [refs EXCEPT ![call[c].h] = 1]
  /\ UNCHANGED <<sessions, returned, removed, lockVars, nchild, child, exitcode, killsig,
                 out, written, size, input, threadVars, ncalls>>
  /\ UNCHANGED appVars

\* let id = state.next_id.fetch_add(1, Ordering::Relaxed)
SpawnFetchAdd(c) ==
  /\ call[c].pc = "fetch"
  /\ next_id' = WrappingInc(next_id)
  /\ sid' = [sid EXCEPT ![call[c].h] = next_id]
  /\ issued' = Append(issued, next_id)
  /\ call' = [call EXCEPT ![c].pc = "lock", ![c].id = next_id, ![c].arg = to_string(next_id)]
  /\ ret' = NoRet
  /\ refs' = [refs EXCEPT ![call[c].h] = 1]
  /\ UNCHANGED <<sessions, returned, removed, lockVars, nchild, child, exitcode, killsig,
                 out, written, size, input, threadVars, ncalls>>
  /\ UNCHANGED appVars

\* Mutant: both threads are started before the registry is locked, so a
\* spawn that finds it poisoned returns its error with the threads running.
SpawnLockThreads(c) ==
  /\ call[c].pc = "lock" /\ call[c].op = "spawn"
  /\ lock[SessionsLock] = Free
  /\ IF SessionsLock \in poisoned
       THEN /\ Return(c, Result(c, StatePoisoned))
            /\ lock' = lock
            /\ refs' = ArcDrop(refs, call[c].h)
            /\ reader' = [reader EXCEPT ![call[c].h].pc = "read"]
            /\ waiter' = [waiter EXCEPT ![call[c].h].pc = "wait"]
       ELSE /\ lock' = [lock EXCEPT ![SessionsLock] = Caller(c)]
            /\ call' = [call EXCEPT ![c].pc = "insert"]
            /\ ret' = NoRet
            /\ refs' = refs
            /\ UNCHANGED <<reader, waiter>>
  /\ UNCHANGED <<regVars, histVars, poisoned, childVars, size, input, chunks, events, ncalls>>
  /\ UNCHANGED appVars

\* state.sessions.lock().map_err(|_| "PtyState poisoned")?
SpawnLock(c) ==
  /\ call[c].pc = "lock" /\ call[c].op = "spawn"
  /\ lock[SessionsLock] = Free
  /\ IF SessionsLock \in poisoned
       THEN /\ Return(c, Result(c, StatePoisoned))
            /\ lock' = lock
            /\ refs' = ArcDrop(refs, call[c].h)
       ELSE /\ lock' = [lock EXCEPT ![SessionsLock] = Caller(c)]
            /\ call' = [call EXCEPT ![c].pc = "insert"]
            /\ ret' = NoRet
            /\ refs' = refs
  /\ UNCHANGED <<regVars, histVars, poisoned, childVars, size, input, threadVars, ncalls>>
  /\ UNCHANGED appVars

\* Mutant: the guard is taken and dropped but the session is not inserted.
SpawnInsertNothing(c) ==
  /\ call[c].pc = "insert"
  /\ lock' = [lock EXCEPT ![SessionsLock] = Free]
  /\ call' = [call EXCEPT ![c].pc = "reader"]
  /\ ret' = NoRet
  /\ UNCHANGED <<regVars, histVars, poisoned, childVars, resVars, threadVars, ncalls>>
  /\ UNCHANGED appVars

\* Mutant: the insert is not in a block of its own, so the registry guard
\* lives on after the insert, while the threads are started.
SpawnInsertHolding(c) ==
  /\ call[c].pc = "insert"
  /\ sessions' = MapInsert(sessions, call[c].id, call[c].h)
  /\ lock' = lock
  /\ call' = [call EXCEPT ![c].pc = "reader"]
  /\ ret' = NoRet
  /\ refs' = ArcClone(DropEntries(refs, EntriesOf(sessions, call[c].id)), call[c].h)
  /\ UNCHANGED <<next_id, histVars, poisoned, childVars, size, input, threadVars, ncalls>>
  /\ UNCHANGED appVars

\* sessions.insert(id, session.clone()); the guard is dropped at the end of the block.
SpawnInsert(c) ==
  /\ call[c].pc = "insert"
  /\ sessions' = MapInsert(sessions, call[c].id, call[c].h)
  /\ lock' = [lock EXCEPT ![SessionsLock] = Free]
  /\ call' = [call EXCEPT ![c].pc = "reader"]
  /\ ret' = NoRet
  /\ refs' = ArcClone(DropEntries(refs, EntriesOf(sessions, call[c].id)), call[c].h)
  /\ UNCHANGED <<next_id, histVars, poisoned, childVars, size, input, threadVars, ncalls>>
  /\ UNCHANGED appVars

\* thread::spawn of the reader thread
SpawnReader(c) ==
  /\ call[c].pc = "reader"
  /\ reader' = [reader EXCEPT ![call[c].h].pc = "read"]
  /\ call' = [call EXCEPT ![c].pc = "waiter"]
  /\ ret' = NoRet
  /\ UNCHANGED <<regVars, histVars, lockVars, childVars, resVars, chunks, waiter, events, ncalls>>
  /\ UNCHANGED appVars

\* thread::spawn of the wait thread, then Ok(id_s)
SpawnWaiter(c) ==
  /\ call[c].pc = "waiter"
  /\ waiter' = [waiter EXCEPT ![call[c].h].pc = "wait"]
  /\ returned' = Append(returned, call[c].arg)
  /\ Return(c, Result(c, Ok))
  /\ refs' = ArcDrop(refs, call[c].h)
  /\ UNCHANGED <<regVars, issued, removed, lockVars, childVars, size, input, reader, chunks,
                 events, ncalls>>
  /\ UNCHANGED appVars

\* ------------------------------------- pty_write, pty_resize, pty_kill
\* let id: u32 = session_id.parse().map_err(|_| "invalid session_id")?
Begin(c, op, s, arg) ==
  /\ call[c].pc = "idle" /\ ncalls < MaxCalls
  /\ ncalls' = ncalls + 1
  /\ LET id == ParseU32(s) IN
     IF id = NoId
       THEN /\ call' = call
            /\ ret' = [NoRet EXCEPT !.op = op, !.res = InvalidSessionId]
       ELSE /\ call' = [call EXCEPT ![c] =
                          [pc |-> "lock", op |-> op, id |-> id, h |-> 0, arg |-> arg,
                           afterExit |-> ExitEmittedFor(id),
                           afterRemoved |-> id \in removed]]
            /\ ret' = NoRet
  /\ UNCHANGED <<regVars, histVars, lockVars, childVars, resVars, threadVars>>
  /\ UNCHANGED appVars

WriteBegin(c) == \E s \in SessionIdArgs, d \in WriteData : Begin(c, "write", s, d)
ResizeBegin(c) == \E s \in SessionIdArgs, g \in Geometries : Begin(c, "resize", s, g)
KillBegin(c) == \E s \in SessionIdArgs : Begin(c, "kill", s, <<>>)

\* Mutant: a registry mutex that cannot be acquired is reported like a
\* session that is not there.
LockMasked(c) ==
  /\ call[c].pc = "lock" /\ call[c].op # "spawn"
  /\ lock[SessionsLock] = Free
  /\ IF SessionsLock \in poisoned
       THEN /\ Return(c, Result(c, UnknownSession))
            /\ lock' = lock
       ELSE /\ lock' = [lock EXCEPT ![SessionsLock] = Caller(c)]
            /\ call' = [call EXCEPT ![c].pc = "get"]
            /\ ret' = NoRet
  /\ UNCHANGED <<regVars, histVars, poisoned, childVars, resVars, threadVars, ncalls>>
  /\ UNCHANGED appVars

\* let sessions = state.sessions.lock().map_err(|_| "PtyState poisoned")?
Lock(c) ==
  /\ call[c].pc = "lock" /\ call[c].op # "spawn"
  /\ lock[SessionsLock] = Free
  /\ IF SessionsLock \in poisoned
       THEN /\ Return(c, Result(c, StatePoisoned))
            /\ lock' = lock
       ELSE /\ lock' = [lock EXCEPT ![SessionsLock] = Caller(c)]
            /\ call' = [call EXCEPT ![c].pc = "get"]
            /\ ret' = NoRet
  /\ UNCHANGED <<regVars, histVars, poisoned, childVars, resVars, threadVars, ncalls>>
  /\ UNCHANGED appVars

\* Mutant: a lookup that misses falls back to some session of the registry.
GetOrAny(c) ==
  /\ call[c].pc = "get"
  /\ lock' = [lock EXCEPT ![SessionsLock] = Free]
  /\ IF sessions # {}
       THEN /\ call' = [call EXCEPT ![c].pc = "guard",
                                    ![c].h = IF call[c].id \in Keys(sessions)
                                               THEN MapGet(sessions, call[c].id)
                                               ELSE (CHOOSE e \in sessions : TRUE)[2]]
            /\ ret' = NoRet
            /\ refs' = ArcClone(refs, call'[c].h)
       ELSE Return(c, Result(c, UnknownSession)) /\ refs' = refs
  /\ UNCHANGED <<regVars, histVars, poisoned, childVars, size, input, threadVars, ncalls>>
  /\ UNCHANGED appVars

\* Mutant: the registry guard is not dropped after a lookup that found the
\* Session (it lives as long as the command).
GetHolding(c) ==
  /\ call[c].pc = "get"
  /\ IF call[c].id \in Keys(sessions)
       THEN /\ call' = [call EXCEPT ![c].pc = "guard", ![c].h = MapGet(sessions, call[c].id)]
            /\ ret' = NoRet
            /\ refs' = ArcClone(refs, call'[c].h)
            /\ lock' = lock
       ELSE /\ Return(c, Result(c, UnknownSession))
            /\ refs' = refs
            /\ lock' = [lock EXCEPT ![SessionsLock] = Free]
  /\ UNCHANGED <<regVars, histVars, poisoned, childVars, size, input, threadVars, ncalls>>
  /\ UNCHANGED appVars

\* Mutant: the lookup hands out the Session without cloning the Arc
\* (sessions.get(&id) kept past the guard), so the registry's clone may be
\* the last one while the command runs.
GetBorrowed(c) ==
  /\ call[c].pc = "get"
  /\ lock' = [lock EXCEPT ![SessionsLock] = Free]
  /\ IF call[c].id \in Keys(sessions)
       THEN /\ call' = [call EXCEPT ![c].pc = "guard", ![c].h = MapGet(sessions, call[c].id)]
            /\ ret' = NoRet
       ELSE Return(c, Result(c, UnknownSession))
  /\ UNCHANGED <<regVars, histVars, poisoned, childVars, resVars, threadVars, ncalls>>
  /\ UNCHANGED appVars

\* sessions.get(&id).cloned().ok_or("Unavailable session")?; the guard is
\* dropped at the end of the block on both paths.
Get(c) ==
  /\ call[c].pc = "get"
  /\ lock' = [lock EXCEPT ![SessionsLock] = Free]
  /\ IF call[c].id \in Keys(sessions)
       THEN /\ call' = [call EXCEPT ![c].pc = "guard", ![c].h = MapGet(sessions, call[c].id)]
            /\ ret' = NoRet
            /\ refs' = ArcClone(refs, call'[c].h)
       ELSE Return(c, Result(c, UnknownSession)) /\ refs' = refs
  /\ UNCHANGED <<regVars, histVars, poisoned, childVars, size, input, threadVars, ncalls>>
  /\ UNCHANGED appVars

\* Mutant: the guards are per resource but not per session: every command
\* takes the guard of the first Session.
GuardGlobal(c) ==
  /\ call[c].pc = "guard"
  /\ LET l == <<GuardOf(call[c].op), 1>> IN
     /\ lock[l] = Free
     /\ IF l \in poisoned
          THEN /\ Return(c, Result(c, PoisonedOf(l[1])))
               /\ lock' = lock
               /\ refs' = ArcDrop(refs, call[c].h)
          ELSE /\ lock' = [lock EXCEPT ![l] = Caller(c)]
               /\ call' = [call EXCEPT ![c].pc = "io"]
               /\ ret' = NoRet
               /\ refs' = refs
  /\ UNCHANGED <<regVars, histVars, poisoned, childVars, size, input, threadVars, ncalls>>
  /\ UNCHANGED appVars

\* session.writer.lock() / session.master.lock() / session.killer.lock()
Guard(c) ==
  /\ call[c].pc = "guard"
  /\ LET l == <<GuardOf(call[c].op), call[c].h>> IN
     /\ lock[l] = Free
     /\ IF l \in poisoned
          THEN /\ Return(c, Result(c, PoisonedOf(l[1])))
               /\ lock' = lock
               /\ refs' = ArcDrop(refs, call[c].h)
          ELSE /\ lock' = [lock EXCEPT ![l] = Caller(c)]
               /\ call' = [call EXCEPT ![c].pc = "io"]
               /\ ret' = NoRet
               /\ refs' = refs
  /\ UNCHANGED <<regVars, histVars, poisoned, childVars, size, input, threadVars, ncalls>>
  /\ UNCHANGED appVars

\* Mutant: a successful kill also takes the session out of the registry.
IoRemoving(c, okay) ==
  /\ call[c].pc = "io"
  /\ LET h == call[c].h
         op == call[c].op IN
     /\ lock' = [lock EXCEPT ![<<GuardOf(op), h>>] = Free]
     /\ input' = IF okay /\ op = "write"
                   THEN [input EXCEPT ![h] = input[h] \o call[c].arg] ELSE input
     /\ size' = IF okay /\ op = "resize" THEN [size EXCEPT ![h] = call[c].arg] ELSE size
     /\ killsig' = IF okay /\ op = "kill" THEN [killsig EXCEPT ![h] = TRUE] ELSE killsig
     /\ sessions' = IF okay /\ op = "kill" THEN MapRemove(sessions, call[c].id) ELSE sessions
     /\ refs' = ArcDrop(IF okay /\ op = "kill" THEN DropEntries(refs, EntriesOf(sessions, call[c].id))
                                               ELSE refs, h)
     /\ Return(c, Result(c, IF okay THEN Ok ELSE OsError))
  /\ UNCHANGED <<next_id, histVars, poisoned, nchild, sid, child, exitcode, out, written,
                 threadVars, ncalls>>
  /\ UNCHANGED appVars

\* Mutant: a resize that succeeds is announced with a data event.
IoNotifying(c, okay) ==
  /\ call[c].pc = "io"
  /\ LET h == call[c].h
         op == call[c].op IN
     /\ lock' = [lock EXCEPT ![<<GuardOf(op), h>>] = Free]
     /\ input' = IF okay /\ op = "write"
                   THEN [input EXCEPT ![h] = input[h] \o call[c].arg] ELSE input
     /\ size' = IF okay /\ op = "resize" THEN [size EXCEPT ![h] = call[c].arg] ELSE size
     /\ killsig' = IF okay /\ op = "kill" THEN [killsig EXCEPT ![h] = TRUE] ELSE killsig
     /\ events' = IF okay /\ op = "resize"
                    THEN [events EXCEPT ![h] = Append(events[h],
                            [type |-> "data", session_id |-> to_string(call[c].id),
                             data |-> <<>>, code |-> 0])]
                    ELSE events
     /\ refs' = ArcDrop(refs, h)
     /\ Return(c, Result(c, IF okay THEN Ok ELSE OsError))
  /\ UNCHANGED <<regVars, histVars, poisoned, nchild, sid, child, exitcode, out, written,
                 reader, chunks, waiter, ncalls>>
  /\ UNCHANGED appVars

\* w.write_all(data.as_bytes()) / master.resize(..) / k.kill(): the OS call
\* succeeds or fails; the guard is dropped when the command returns.
\* A successful kill has the child signalled.
Io(c, okay) ==
  /\ call[c].pc = "io"
  /\ LET h == call[c].h
         op == call[c].op IN
     /\ lock' = [lock EXCEPT ![<<GuardOf(op), h>>] = Free]
     /\ input' = IF okay /\ op = "write"
                   THEN [input EXCEPT ![h] = input[h] \o call[c].arg] ELSE input
     /\ size' = IF okay /\ op = "resize" THEN [size EXCEPT ![h] = call[c].arg] ELSE size
     /\ killsig' = IF okay /\ op = "kill" THEN [killsig EXCEPT ![h] = TRUE] ELSE killsig
     /\ refs' = ArcDrop(refs, h)
     /\ Return(c, Result(c, IF okay THEN Ok ELSE OsError))
  /\ UNCHANGED <<regVars, histVars, poisoned, nchild, sid, child, exitcode, out, written,
                 threadVars, ncalls>>
  /\ UNCHANGED appVars

IoOk(c) == Io(c, TRUE)
IoErr(c) == Io(c, FALSE)

\* ----------------------------------------------------- the child process
\* The child writes one byte to its terminal.
ChildWrite(h, bytes, limit) ==
  /\ child[h] = "alive" /\ Len(written[h]) < limit
  /\ \E b \in bytes :
       /\ out' = [out EXCEPT ![h] = Append(out[h], b)]
       /\ written' = [written EXCEPT ![h] = Append(written[h], b)]
  /\ ret' = NoRet
  /\ UNCHANGED <<regVars, histVars, lockVars, nchild, sid, child, exitcode, killsig,
                 resVars, threadVars, callVars>>
  /\ UNCHANGED appVars

\* The child terminates by itself.
ChildExit(h) ==
  /\ child[h] = "alive"
  /\ child' = [child EXCEPT ![h] = "dead"]
  /\ \E code \in ExitCodes : exitcode' = [exitcode EXCEPT ![h] = code]
  /\ ret' = NoRet
  /\ UNCHANGED <<regVars, histVars, lockVars, nchild, sid, killsig, out, written,
                 resVars, threadVars, callVars>>
  /\ UNCHANGED appVars

\* The signal of a successful kill terminates the child.
ChildKilled(h) ==
  /\ child[h] = "alive" /\ killsig[h]
  /\ child' = [child EXCEPT ![h] = "dead"]
  /\ \E code \in KilledCode : exitcode' = [exitcode EXCEPT ![h] = code]
  /\ ret' = NoRet
  /\ UNCHANGED <<regVars, histVars, lockVars, nchild, sid, killsig, out, written,
                 resVars, threadVars, callVars>>
  /\ UNCHANGED appVars

\* ----------------------------------------------------- the reader thread
Min(a, b) == IF a < b THEN a ELSE b

\* reader.read(&mut buf): Ok(n) with the first n pending bytes, n at most
\* the buffer; Ok(0) or Err(_) once the child is gone and nothing is pending.
ReaderRead(h) ==
  /\ reader[h].pc = "read"
  /\ IF out[h] # <<>>
       THEN \E n \in 1..Min(BufSize, Len(out[h])) :
              /\ reader' = [reader EXCEPT ![h] = [pc |-> "emit", buf |-> SubSeq(out[h], 1, n)]]
              /\ chunks' = [chunks EXCEPT ![h] = Append(chunks[h], SubSeq(out[h], 1, n))]
              /\ out' = [out EXCEPT ![h] = SubSeq(out[h], n + 1, Len(out[h]))]
       ELSE /\ child[h] = "dead"
            /\ reader' = [reader EXCEPT ![h] = [pc |-> "done", buf |-> <<>>]]
            /\ UNCHANGED <<chunks, out>>
  /\ ret' = NoRet
  /\ UNCHANGED <<regVars, histVars, lockVars, nchild, sid, child, exitcode, killsig,
                 written, resVars, waiter, events, callVars>>
  /\ UNCHANGED appVars

DataEvent(h, buf) ==
  [type |-> "data", session_id |-> to_string(sid[h]), data |-> from_utf8_lossy(buf), code |-> 0]

\* Mutant: a chunk that is not valid UTF-8 is dropped instead of decoded lossily.
ReaderEmitStrict(h) ==
  /\ reader[h].pc = "emit"
  /\ events' = IF from_utf8_lossy(reader[h].buf) = reader[h].buf
                 THEN [events EXCEPT ![h] = Append(events[h], DataEvent(h, reader[h].buf))]
                 ELSE events
  /\ reader' = [reader EXCEPT ![h] = [pc |-> "read", buf |-> <<>>]]
  /\ ret' = NoRet
  /\ UNCHANGED <<regVars, histVars, lockVars, childVars, resVars, chunks, waiter, callVars>>
  /\ UNCHANGED appVars

\* Mutant: a chunk that is not valid UTF-8 is an error that ends the thread
\* (String::from_utf8(..) with a break on Err).
ReaderEmitStop(h) ==
  /\ reader[h].pc = "emit"
  /\ IF from_utf8_lossy(reader[h].buf) = reader[h].buf
       THEN /\ events' = [events EXCEPT ![h] = Append(events[h], DataEvent(h, reader[h].buf))]
            /\ reader' = [reader EXCEPT ![h] = [pc |-> "read", buf |-> <<>>]]
       ELSE /\ events' = events
            /\ reader' = [reader EXCEPT ![h] = [pc |-> "done", buf |-> <<>>]]
  /\ ret' = NoRet
  /\ UNCHANGED <<regVars, histVars, lockVars, childVars, resVars, chunks, waiter, callVars>>
  /\ UNCHANGED appVars

\* app_data.emit("pty:data", PtyDataPayload { session_id, data })
ReaderEmit(h) ==
  /\ reader[h].pc = "emit"
  /\ events' = [events EXCEPT ![h] = Append(events[h], DataEvent(h, reader[h].buf))]
  /\ reader' = [reader EXCEPT ![h] = [pc |-> "read", buf |-> <<>>]]
  /\ ret' = NoRet
  /\ UNCHANGED <<regVars, histVars, lockVars, childVars, resVars, chunks, waiter, callVars>>
  /\ UNCHANGED appVars

\* ------------------------------------------------------- the wait thread
\* Mutant: a failed wait ends the thread (child.wait()?) instead of
\* falling back to the sentinel.
WaiterWaitBail(h) ==
  /\ waiter[h].pc = "wait" /\ child[h] = "dead"
  /\ \/ waiter' = [waiter EXCEPT ![h] = [pc |-> "emit", code |-> exitcode[h]]]
     \/ waiter' = [waiter EXCEPT ![h] = [pc |-> "done", code |-> 0]]
  /\ ret' = NoRet
  /\ UNCHANGED <<regVars, histVars, lockVars, childVars, resVars, reader, chunks, events,
                 callVars>>
  /\ UNCHANGED appVars

\* Mutant: the wait does not block (try_wait): it returns while the child
\* is still running.
WaiterWaitEarly(h) ==
  /\ waiter[h].pc = "wait"
  /\ \E code \in {exitcode[h], ExitSentinel} :
       waiter' = [waiter EXCEPT ![h] = [pc |-> "emit", code |-> code]]
  /\ ret' = NoRet
  /\ UNCHANGED <<regVars, histVars, lockVars, childVars, resVars, reader, chunks, events,
                 callVars>>
  /\ UNCHANGED appVars

\* Mutant: a failed wait falls back to the default code 0 (unwrap_or_default).
WaiterWaitDefault(h) ==
  /\ waiter[h].pc = "wait" /\ child[h] = "dead"
  /\ \E code \in {exitcode[h], 0} :
       waiter' = [waiter EXCEPT ![h] = [pc |-> "emit", code |-> code]]
  /\ ret' = NoRet
  /\ UNCHANGED <<regVars, histVars, lockVars, childVars, resVars, reader, chunks, events,
                 callVars>>
  /\ UNCHANGED appVars

\* child.wait().ok().map(|s| s.exit_code()).unwrap_or(1): returns once the
\* child is dead, with its code, or with the sentinel when wait fails.
WaiterWait(h) ==
  /\ waiter[h].pc = "wait" /\ child[h] = "dead"
  /\ \E code \in {exitcode[h], ExitSentinel} :
       waiter' = [waiter EXCEPT ![h] = [pc |-> "emit", code |-> code]]
  /\ ret' = NoRet
  /\ UNCHANGED <<regVars, histVars, lockVars, childVars, resVars, reader, chunks, events,
                 callVars>>
  /\ UNCHANGED appVars

ExitEvent(h, code) ==
  [type |-> "exit", session_id |-> to_string(sid[h]), data |-> <<>>, code |-> code]

\* Mutant: the wait thread goes on to the removal without emitting.
WaiterEmitSkipped(h) ==
  /\ waiter[h].pc = "emit"
  /\ events' = events
  /\ waiter' = [waiter EXCEPT ![h].pc = "lock"]
  /\ ret' = NoRet
  /\ UNCHANGED <<regVars, histVars, lockVars, childVars, resVars, reader, chunks, callVars>>
  /\ UNCHANGED appVars

\* app_exit.emit("pty:exit", PtyExitPayload { session_id, code })
WaiterEmit(h) ==
  /\ waiter[h].pc = "emit"
  /\ events' = [events EXCEPT ![h] = Append(events[h], ExitEvent(h, waiter[h].code))]
  /\ waiter' = [waiter EXCEPT ![h].pc = "lock"]
  /\ ret' = NoRet
  /\ UNCHANGED <<regVars, histVars, lockVars, childVars, resVars, reader, chunks, callVars>>
  /\ UNCHANGED appVars

\* if let Ok(mut sessions) = sessions_for_exit.lock(): a poisoned mutex ends
\* the thread without a removal.
WaiterLock(h) ==
  /\ waiter[h].pc = "lock"
  /\ lock[SessionsLock] = Free
  /\ IF SessionsLock \in poisoned
       THEN /\ waiter' = [waiter EXCEPT ![h].pc = "done"]
            /\ lock' = lock
       ELSE /\ waiter' = [waiter EXCEPT ![h].pc = "remove"]
            /\ lock' = [lock EXCEPT ![SessionsLock] = Waiter(h)]
  /\ ret' = NoRet
  /\ UNCHANGED <<regVars, histVars, poisoned, childVars, resVars, reader, chunks, events,
                 callVars>>
  /\ UNCHANGED appVars

\* Mutant: the guard is taken and dropped but nothing is removed.
WaiterRemoveNothing(h) ==
  /\ waiter[h].pc = "remove"
  /\ lock' = [lock EXCEPT ![SessionsLock] = Free]
  /\ waiter' = [waiter EXCEPT ![h].pc = "done"]
  /\ ret' = NoRet
  /\ UNCHANGED <<regVars, histVars, poisoned, childVars, resVars, reader, chunks,
                 events, callVars>>
  /\ UNCHANGED appVars

\* sessions.remove(&id); the guard is dropped at the end of the block.
WaiterRemove(h) ==
  /\ waiter[h].pc = "remove"
  /\ sessions' = MapRemove(sessions, sid[h])
  /\ removed' = IF sid[h] \in Keys(sessions) THEN removed \cup {sid[h]} ELSE removed
  /\ lock' = [lock EXCEPT ![SessionsLock] = Free]
  /\ waiter' = [waiter EXCEPT ![h].pc = "done"]
  /\ ret' = NoRet
  /\ refs' = DropEntries(refs, EntriesOf(sessions, sid[h]))
  /\ UNCHANGED <<next_id, issued, returned, poisoned, childVars, size, input, reader, chunks,
                 events, callVars>>
  /\ UNCHANGED appVars

\* ------------------------------------------------------------- poisoning
\* A thread panics while it holds the guard of l: the Mutex is poisoned, and
\* from then on lock() on it returns Err.  The guard of the registry is held
\* by whoever inserts, looks up or removes; a guard of a Session by a
\* command that found the Session in the registry.
Panic(l) ==
  /\ lock[l] = Free /\ l \notin poisoned /\ Cardinality(poisoned) < MaxPanics
  /\ l = SessionsLock \/ \E e \in sessions : e[2] = l[2]
  /\ poisoned' = poisoned \cup {l}
  /\ ret' = NoRet
  /\ UNCHANGED <<regVars, histVars, lock, childVars, resVars, threadVars, callVars>>
  /\ UNCHANGED appVars

\* ---------------------------------------------------------- specification
\* The bytes children write: one ASCII letter where only the flow of the
\* output matters; where its content matters, also the two bytes of a
\* two-byte character (0xC3 0xA9) and the lead byte of a three-byte one.
Ascii == {97}
ByteSet == {97, 195, 169, 226}

SpawnStep(c) ==
  \/ SpawnFail(c) \/ SpawnChild(c) \/ SpawnFetchAdd(c) \/ SpawnLock(c) \/ SpawnInsert(c)
  \/ SpawnReader(c) \/ SpawnWaiter(c)

CommandStep(c) ==
  \/ WriteBegin(c) \/ ResizeBegin(c) \/ KillBegin(c)
  \/ Lock(c) \/ Get(c) \/ Guard(c) \/ IoOk(c) \/ IoErr(c)

ChildStep(h) == ChildExit(h) \/ ChildKilled(h)
ReaderStep(h) == ReaderRead(h) \/ ReaderEmit(h)
WaiterStep(h) == WaiterWait(h) \/ WaiterEmit(h) \/ WaiterLock(h) \/ WaiterRemove(h)

\* Any number of terminals, commands issued concurrently by two callers.
Next ==
  \/ \E c \in Callers : SpawnStep(c) \/ CommandStep(c)
  \/ \E h \in Handles : ChildStep(h) \/ ReaderStep(h) \/ WaiterStep(h)
                        \/ ChildWrite(h, Ascii, MaxOut)

Spec == Init /\ [][Next]_vars

\* One terminal, opened by one caller, whose child writes arbitrary bytes.
SpawnOnce(c) == nchild = 0 /\ SpawnChild(c)

NextData ==
  \/ SpawnOnce(1)
  \/ SpawnFetchAdd(1) \/ SpawnLock(1) \/ SpawnInsert(1) \/ SpawnReader(1) \/ SpawnWaiter(1)
  \/ ChildExit(1) \/ ReaderStep(1) \/ WaiterStep(1)
  \/ ChildWrite(1, ByteSet, MaxStream)

SpecData == Init /\ [][NextData]_vars

\* Scheduling: a command in flight and a started thread keep running, and
\* the OS delivers the signal of a kill.  Nothing makes a caller issue a
\* command, a child write or exit by itself, or a blocked write complete.
InFlight(c) ==
  \/ SpawnFetchAdd(c) \/ SpawnLock(c) \/ SpawnInsert(c) \/ SpawnReader(c) \/ SpawnWaiter(c)
  \/ Lock(c) \/ Get(c) \/ Guard(c)
  \/ (call[c].op # "write" /\ (IoOk(c) \/ IoErr(c)))

Fairness ==
  /\ \A c \in Callers : WF_vars(InFlight(c))
  /\ \A h \in Handles : WF_vars(ReaderStep(h)) /\ WF_vars(WaiterStep(h))
                        /\ WF_vars(ChildKilled(h))

FairSpec == Init /\ [][Next]_vars /\ Fairness

\* The same program where a mutex may get poisoned.
NextPoison == Next \/ \E l \in Locks : Panic(l)

SpecPoison == Init /\ [][NextPoison]_vars

\* The state after MaxSpawns spawns have returned, one after the other:
\* every terminal is registered, its child running and both its threads
\* started; no command is in progress.  ncalls counts from here.
InitSpawned ==
  /\ next_id = U32Of(MaxSpawns + 1)
  /\ sessions = {<<U32Of(h), h>> : h \in Handles}
  /\ lock = [l \in Locks |-> Free]
  /\ poisoned = {}
  /\ nchild = MaxSpawns
  /\ sid = [h \in Handles |-> U32Of(h)]
  /\ child = [h \in Handles |-> "alive"]
  /\ exitcode = [h \in Handles |-> 0]
  /\ killsig = [h \in Handles |-> FALSE]
  /\ out = [h \in Handles |-> <<>>]
  /\ written = [h \in Handles |-> <<>>]
  /\ size \in [Handles -> SpawnGeometry]
  /\ input = [h \in Handles |-> <<>>]
  /\ refs = [h \in Handles |-> 1]
  /\ reader = [h \in Handles |-> [pc |-> "read", buf |-> <<>>]]
  /\ chunks = [h \in Handles |-> <<>>]
  /\ waiter = [h \in Handles |-> [pc |-> "wait", code |-> 0]]
  /\ events = [h \in Handles |-> <<>>]
  /\ call = [c \in Callers |-> Idle]
  /\ ret = NoRet
  /\ ncalls = 0
  /\ issued = [h \in Handles |-> U32Of(h)]
  /\ returned = [h \in Handles |-> to_string(U32Of(h))]
  /\ removed = {}
  /\ AppIdle

\* Commands on the open terminals, issued concurrently by two callers.  The
\* children are silent.
NextLocks ==
  \/ \E c \in Callers : CommandStep(c)
  \/ \E h \in Handles : ChildStep(h) \/ WaiterStep(h)

SpecLocks == InitSpawned /\ [][NextLocks]_vars

\* The same under the scheduling of Fairness, the children running until
\* they are killed; the reader thread of a silent child has one step, the
\* read that finds the terminal closed.
NextKilled ==
  \/ \E c \in Callers : CommandStep(c)
  \/ \E h \in Handles : ChildKilled(h) \/ ReaderRead(h) \/ WaiterStep(h)

FairLocks == InitSpawned /\ [][NextKilled]_vars /\ Fairness

\* A state with one terminal open: it is registered under id, its child
\* running and both its threads started, and the counter stands at counter;
\* the next spawn opens the second terminal.  ncalls and the histories
\* count from here.
OpenAt(id, counter) ==
  /\ next_id = counter
  /\ sessions = {<<id, 1>>}
  /\ lock = [l \in Locks |-> Free]
  /\ poisoned = {}
  /\ nchild = 1
  /\ sid = [h \in Handles |-> IF h = 1 THEN id ELSE NoId]
  /\ child = [h \in Handles |-> IF h = 1 THEN "alive" ELSE "none"]
  /\ exitcode = [h \in Handles |-> 0]
  /\ killsig = [h \in Handles |-> FALSE]
  /\ out = [h \in Handles |-> <<>>]
  /\ written = [h \in Handles |-> <<>>]
  /\ \E g \in SpawnGeometry : size = [h \in Handles |-> IF h = 1 THEN g ELSE <<0, 0>>]
  /\ input = [h \in Handles |-> <<>>]
  /\ refs = [h \in Handles |-> IF h = 1 THEN 1 ELSE 0]
  /\ reader = [h \in Handles |-> [pc |-> IF h = 1 THEN "read" ELSE "none", buf |-> <<>>]]
  /\ chunks = [h \in Handles |-> <<>>]
  /\ waiter = [h \in Handles |-> [pc |-> IF h = 1 THEN "wait" ELSE "none", code |-> 0]]
  /\ events = [h \in Handles |-> <<>>]
  /\ call = [c \in Callers |-> Idle]
  /\ ret = NoRet
  /\ ncalls = 0
  /\ issued = <<id>>
  /\ returned = <<to_string(id)>>
  /\ removed = {}
  /\ AppIdle

\* The state after the first spawn has returned: the terminal has id 1 and
\* the counter stands at 2.
InitOpen == OpenAt(U32Of(1), U32Of(2))

\* A spawn and the commands on the open terminals, issued concurrently by
\* two callers; the children are silent and run until they are killed.
NextGuards ==
  \/ \E c \in Callers : SpawnStep(c) \/ CommandStep(c)
  \/ \E h \in Handles : ChildKilled(h) \/ ReaderRead(h) \/ WaiterStep(h)

FairGuards == InitOpen /\ [][NextGuards]_vars /\ Fairness

\* The largest u32.
U32Max == <<Half - 1, Half - 1>>

\* A state after 2^32 spawns: the terminal that got the id 2^32 - 1 is still
\* open, the counter has wrapped, every id from 0 to 2^32 - 2 has been
\* handed out since to sessions that have ended, and the counter stands at
\* 2^32 - 1 again.
InitWrap == OpenAt(U32Max, U32Max)

\* Spawns and the threads of the open terminals; no command is issued.
NextWrap ==
  \/ \E c \in Callers : SpawnStep(c)
  \/ \E h \in Handles : ChildExit(h) \/ ReaderStep(h) \/ WaiterStep(h)
                        \/ ChildWrite(h, Ascii, MaxOut)

SpecWrap == InitWrap /\ [][NextWrap]_vars

\* ------------------------------------------------------------ properties
Ops == {"write", "resize", "kill"}
IssuedIds == {issued[i] : i \in 1..Len(issued)}
DataOf(h) == SelectSeq(events[h], LAMBDA e : e.type = "data")
RECURSIVE Concat(_)
Concat(ss) == IF ss = <<>> THEN <<>> ELSE Head(ss) \o Concat(Tail(ss))
Payloads(h) == [i \in 1..Len(DataOf(h)) |-> DataOf(h)[i].data]

\* C1: for every session the exit event is the last event emitted for its
\* id: there is at most one, and no data event follows it.
C1_ExitIsLast ==
  \A h \in Handles : \A i \in 1..Len(events[h]) :
    events[h][i].type = "exit" => i = Len(events[h])

\* C2: a write, resize or kill on X issued after the exit event of X has
\* been emitted returns UnknownSession.
C2_UnknownAfterExit ==
  (ret.op \in Ops /\ ret.afterExit) => ret.res = UnknownSession

\* C3: the ids spawn hands out start at 1 and each is strictly greater
\* than every id handed out before it, also when spawns overlap; the id
\* strings returned are pairwise distinct and name the ids handed out.
C3_IdsUniqueIncreasing ==
  /\ Len(issued) > 0 => issued[1] = <<0, 1>>
  /\ \A i, j \in 1..Len(issued) : i < j => Less(issued[i], issued[j])
  /\ \A i, j \in 1..Len(returned) : i # j => returned[i] # returned[j]
  /\ \A i \in 1..Len(returned) : ParseU32(returned[i]) \in IssuedIds
  /\ (ret.op = "spawn" /\ ret.res = Ok) => returned[Len(returned)] = to_string(ret.id)

\* Two overlapping spawns have returned, the later id first.
C3_Witness == Len(returned) = 2 /\ returned[1] = <<50>> /\ returned[2] = <<49>>

\* C4: once the reader has stopped, the payloads of the data events of a
\* session, concatenated, are the lossy decoding of everything the child wrote.
C4_PayloadIsLossyStream ==
  \A h \in Handles :
    reader[h].pc = "done" => Concat(Payloads(h)) = from_utf8_lossy(written[h])

\* C5: the data events of a session are the decoded chunks in the order
\* they were read, none twice and none skipped, and a chunk is emitted
\* before the next one is read; the chunks are the child's bytes in order.
C5_ReadOrder ==
  \A h \in Handles :
    LET n == Len(chunks[h])
        m == IF reader[h].pc = "emit" THEN n - 1 ELSE n
    IN  /\ Len(DataOf(h)) = m
        /\ \A i \in 1..m : DataOf(h)[i].data = from_utf8_lossy(chunks[h][i])
        /\ reader[h].pc = "emit" => reader[h].buf = chunks[h][n]
        /\ Concat(chunks[h]) \o out[h] = written[h]

\* Two chunks were read and emitted, the first one not valid UTF-8 by itself.
C5_Witness ==
  /\ Len(DataOf(1)) = 2 /\ Len(chunks[1]) = 2
  /\ DataOf(1)[1].data = Replacement /\ DataOf(1)[2].data = <<97>>

Started(h) == waiter[h].pc # "none"

\* C6 as stated: after a successful spawn an event for the id is
\* eventually emitted.
C6_EventAfterSpawn ==
  \A h \in Handles : Started(h) ~> (events[h] # <<>>)

\* C6 as amended: a child that terminates gets its exit event, and a child
\* that writes or terminates gets at least one event once spawn has returned.
C6_EventAfterOutputOrExit ==
  /\ \A h \in Handles : (child[h] = "dead") ~> ExitEmitted(h)
  /\ \A h \in Handles :
       (Started(h) /\ (child[h] = "dead" \/ written[h] # <<>>)) ~> (events[h] # <<>>)

\* A child that wrote nothing has terminated and its exit event, the only
\* event of its session, has been emitted.
C6_Witness ==
  \E h \in Handles :
    Started(h) /\ written[h] = <<>> /\ events[h] # <<>> /\ ExitEmitted(h)

\* C7: after a kill that succeeded on a registered session, the exit
\* event of the session is eventually emitted and its entry removed.
C7_KillLeadsToExit ==
  \A h \in Handles :
    killsig[h] ~> (ExitEmitted(h) /\ sid[h] \notin Keys(sessions))

\* kill has just returned success while the child is still alive and no
\* exit event has been emitted.
C7_Witness ==
  /\ ret.op = "kill" /\ ret.res = Ok
  /\ \E h \in Handles : sid[h] = ret.id /\ killsig[h] /\ child[h] = "alive"
                        /\ ~ExitEmitted(h) /\ ret.id \in Keys(sessions)

\* C8: a write, resize or kill on an id that no spawn was given changes no
\* event, registry entry, counter or session resource, and returns
\* UnknownSession.
C8_NeverSpawned ==
  [][\A c \in Callers :
       LET id == IF call[c].pc = "idle" THEN call'[c].id ELSE call[c].id
           op == IF call[c].pc = "idle" THEN call'[c].op ELSE call[c].op
       IN  (call'[c] # call[c] /\ op \in Ops /\ id # NoId /\ id \notin IssuedIds')
             => /\ UNCHANGED <<events, sessions, next_id, size, input, killsig, child, out>>
                /\ call'[c].pc \in {"lock", "get", "idle"}
                /\ (call'[c].pc = "idle" => ret'.res = UnknownSession)]_vars

\* A command on an id never handed out has returned while a session is registered.
C8_Witness ==
  /\ ret.op \in Ops /\ ret.id # NoId /\ ~ret.spawned /\ ret.res = UnknownSession
  /\ sessions # {}

\* C9: an id whose entry was removed is never a key of the registry again,
\* and a write, resize or kill on it that begins after the removal returns
\* UnknownSession.
C9_RemovedIsTerminal ==
  /\ removed \cap Keys(sessions) = {}
  /\ (ret.op \in Ops /\ ret.afterRemoved) => ret.res = UnknownSession

\* A kill on an id whose entry was removed has returned.
C9_Witness ==
  ret.op = "kill" /\ ret.afterRemoved /\ ret.res = UnknownSession /\ ret.id \in removed

\* C10: a step that takes a key out of the registry is the removal step
\* of the wait thread of the session with that id, and takes out only it.
C10_SingleRemoval ==
  [][Keys(sessions) \subseteq Keys(sessions')
     \/ \E h \in Handles : /\ waiter[h].pc = "remove" /\ waiter'[h].pc = "done"
                           /\ Keys(sessions) \ Keys(sessions') = {sid[h]}
                           /\ sessions' \subseteq sessions]_vars

\* A kill has returned success and the entry is still in the registry.
C10_Witness ==
  /\ ret.op = "kill" /\ ret.res = Ok /\ ret.id \in Keys(sessions)
  /\ removed = {}

\* C11: no exit event has been emitted for an id that is a key of the
\* registry.
C11_NoExitWhileRegistered ==
  \A h \in Handles : ExitEmitted(h) => sid[h] \notin Keys(sessions)

ReturnedIds == {ParseU32(returned[i]) : i \in 1..Len(returned)}

\* C12: the entry of a session is removed only after the wait on its child
\* has completed, so a write, resize or kill on an id a spawn has returned
\* gets UnknownSession only when the child is dead.
C12_NoRemovalBeforeWait ==
  /\ \A h \in Handles :
       sid[h] \in removed => child[h] = "dead" /\ waiter[h].pc = "done"
  /\ \A h \in Handles :
       (sid[h] \in ReturnedIds /\ child[h] = "alive") => sid[h] \in Keys(sessions)
  /\ (ret.op \in Ops /\ ret.res = UnknownSession /\ ret.id \in ReturnedIds)
       => \E h \in Handles : sid[h] = ret.id /\ child[h] = "dead"

\* A write on an id a spawn returned has got UnknownSession, the child dead.
C12_Witness ==
  /\ ret.op = "write" /\ ret.res = UnknownSession /\ ret.id \in ReturnedIds
  /\ \E h \in Handles : sid[h] = ret.id /\ child[h] = "dead"

\* C13: a session is inserted exactly once, by its spawn, under an id that
\* is not and never was a key, before its reader thread and its wait thread
\* exist; so the removal of the wait thread finds the entry, and no step
\* but that insertion adds a key.
C13_InsertOnceBeforeThreads ==
  /\ [](\A h \in Handles :
          (reader[h].pc # "none" \/ waiter[h].pc # "none")
            => sid[h] \in Keys(sessions) \cup removed)
  /\ [](\A h \in Handles : waiter[h].pc = "remove" => <<sid[h], h>> \in sessions)
  /\ [][\A c \in Callers :
          (call[c].pc = "insert" /\ call'[c] # call[c])
            => /\ call[c].id \notin Keys(sessions) \cup removed
               /\ reader[call[c].h].pc = "none" /\ waiter[call[c].h].pc = "none"
               /\ sessions' = sessions \cup {<<call[c].id, call[c].h>>}]_vars
  /\ [][Keys(sessions') \subseteq Keys(sessions)
          \/ \E c \in Callers : call[c].pc = "insert" /\ call'[c].pc = "reader"]_vars

\* The wait thread of a session is about to remove the entry its spawn
\* inserted; the reader thread has finished.
C13_Witness ==
  \E h \in Handles :
    waiter[h].pc = "remove" /\ <<sid[h], h>> \in sessions /\ reader[h].pc = "done"

\* C14: a spawn that fails at openpty, take_writer, try_clone_reader or
\* spawn_command leaves the registry and the id counter as they were, starts
\* no child and no thread, and emits no event.
C14_SpawnFailureLeavesNoTrace ==
  [][(ret'.op = "spawn" /\ ret'.res = OsError)
       => UNCHANGED <<sessions, next_id, issued, returned, removed, nchild, sid, child,
                      reader, waiter, events, lock, call>>]_vars

\* A spawn has failed while a session is registered; the counter is the
\* one the successful spawn left.
C14_Witness ==
  /\ ret.op = "spawn" /\ ret.res = OsError
  /\ Keys(sessions) = {U32Of(1)} /\ next_id = U32Of(2)

\* C15: a guard that cannot be acquired is never passed over in silence;
\* in particular once the wait thread of a session has finished, the
\* session has no entry in the registry.
C15_NoEntryLeftBehind ==
  \A h \in Handles : waiter[h].pc = "done" => sid[h] \notin Keys(sessions)

PoisonErrors == {StatePoisoned} \cup {PoisonedOf(g) : g \in {"master", "writer", "killer"}}

\* C16: a write, resize or kill returns UnknownSession exactly when it
\* holds the registry guard and the id is no key, and returns a poisoned
\* error exactly when the mutex it is acquiring is poisoned: the error of
\* that mutex, which is never the UnknownSession error.
C16_PoisonDistinct ==
  [][\A c \in Callers :
       (call[c].op \in Ops /\ call[c].pc # "idle" /\ call'[c].pc = "idle")
         => LET wanted == IF call[c].pc = "lock" THEN SessionsLock
                          ELSE <<GuardOf(call[c].op), call[c].h>>
                failed == call[c].pc \in {"lock", "guard"} /\ wanted \in poisoned
            IN  /\ UnknownSession \notin PoisonErrors
                /\ (ret'.res = UnknownSession)
                     <=> /\ call[c].pc = "get" /\ lock[SessionsLock] = Caller(c)
                         /\ call[c].id \notin Keys(sessions)
                /\ (ret'.res \in PoisonErrors) <=> failed
                /\ failed => ret'.res = IF call[c].pc = "lock" THEN StatePoisoned
                                         ELSE PoisonedOf(wanted[1])]_vars

\* A write on a registered session has been refused because the writer
\* mutex of the session is poisoned.
C16_Witness ==
  /\ ret.op = "write" /\ ret.res = PoisonedOf("writer")
  /\ ret.id \in Keys(sessions) /\ <<"writer", MapGet(sessions, ret.id)>> \in poisoned

\* C18: two commands never hold the same guard of the same session at the
\* same time, and a resize or kill that has begun returns, also while a
\* write on the same session stays blocked holding the writer.
C18_SerializePerResource ==
  /\ [](\A c, d \in Callers :
          (c # d /\ call[c].pc = "io" /\ call[d].pc = "io" /\ call[c].h = call[d].h)
            => GuardOf(call[c].op) # GuardOf(call[d].op))
  /\ \A c \in Callers :
       (call[c].op \in {"resize", "kill"} /\ call[c].pc # "idle") ~> (call[c].pc = "idle")

\* A resize has succeeded on a session while a write on the same session
\* is blocked holding its writer.
C18_Witness ==
  /\ ret.op = "resize" /\ ret.res = Ok
  /\ \E d \in Callers : /\ call[d].op = "write" /\ call[d].pc = "io"
                         /\ call[d].id = ret.id
                         /\ lock[<<"writer", call[d].h>>] = Caller(d)

\* Two commands in progress on different ids that spawns have returned.
OnDifferentSessions(c, d) ==
  /\ c # d /\ call[c].op \in Ops /\ call[d].op \in Ops
  /\ call[c].id # call[d].id
  /\ call[c].id \in ReturnedIds /\ call[d].id \in ReturnedIds

\* The mutexes a command holds, and the one it is about to acquire.
Held(c) == {l \in Locks : lock[l] = Caller(c)}
Wanted(c) ==
  IF call[c].pc = "lock" THEN {SessionsLock}
  ELSE IF call[c].pc = "guard" THEN {<<GuardOf(call[c].op), call[c].h>>}
  ELSE {}

\* C17 as stated: commands on different sessions never contend on a mutex:
\* none is about to acquire a mutex that the other holds.
C17_NoSharedLock ==
  \A c, d \in Callers :
    OnDifferentSessions(c, d) => Held(c) \cap Wanted(d) = {}

\* C17 as amended: the only mutex that commands on different sessions both
\* acquire is the registry mutex; the Sessions they find are different,
\* so are the guards they take, and neither waits for a guard the other
\* holds.
C17_OnlyRegistryShared ==
  \A c, d \in Callers :
    OnDifferentSessions(c, d)
      => /\ Held(c) \cap Wanted(d) \subseteq {SessionsLock}
         /\ (call[c].h # 0 /\ call[d].h # 0) => call[c].h # call[d].h
         /\ (Held(c) \cup Wanted(c)) \cap (Held(d) \cup Wanted(d)) \subseteq {SessionsLock}

\* Two writes on different sessions each hold the writer of their session.
C17_Witness ==
  /\ OnDifferentSessions(1, 2)
  /\ call[1].op = "write" /\ call[2].op = "write"
  /\ call[1].pc = "io" /\ call[2].pc = "io"
  /\ Held(1) # {} /\ Held(2) # {}

\* C19: the registry guard is held only by a thread that is at its map
\* operation (insert, lookup, remove), never by one at an OS call or an
\* emit; the next step of the holder is that operation and drops the guard,
\* and the map changes only so.  Hence whoever waits for the registry guard
\* gets it, also while a write stays blocked.
C19_RegistryGuardShort ==
  /\ [](\/ lock[SessionsLock] = Free
        \/ \E c \in Callers : /\ lock[SessionsLock] = Caller(c)
                               /\ call[c].pc \in {"insert", "get"}
        \/ \E h \in Handles : /\ lock[SessionsLock] = Waiter(h)
                               /\ waiter[h].pc = "remove")
  /\ [][/\ \A c \in Callers :
             (lock[SessionsLock] = Caller(c) /\ call'[c] # call[c])
               => lock'[SessionsLock] = Free
        /\ \A h \in Handles :
             (lock[SessionsLock] = Waiter(h) /\ waiter'[h] # waiter[h])
               => lock'[SessionsLock] = Free
        /\ sessions' # sessions
             => lock[SessionsLock] # Free /\ lock'[SessionsLock] = Free]_vars
  /\ \A h \in Handles : (waiter[h].pc = "lock") ~> (waiter[h].pc = "done")
  /\ \A c \in Callers : (call[c].pc = "lock") ~> (call[c].pc \notin {"lock", "insert", "get"})

\* A write is blocked holding the writer of a session while the wait thread
\* of that session holds the registry guard for its removal.
C19_Witness ==
  \E c \in Callers, h \in Handles :
    /\ call[c].op = "write" /\ call[c].pc = "io" /\ call[c].h = h
    /\ lock[<<"writer", h>>] = Caller(c)
    /\ lock[SessionsLock] = Waiter(h) /\ waiter[h].pc = "remove"

\* C20 as stated: a resize on a session that is in the registry succeeds
\* (a resize that got past the lookup returns Ok).
C20_ResizeSucceeds ==
  (ret.op = "resize" /\ ret.res \notin {InvalidSessionId, StatePoisoned, UnknownSession})
    => ret.res = Ok

\* C20 as amended: no step of a resize changes the events, the registry,
\* the id counter, the input or the kill state of any session, or the
\* writer and killer mutexes; a resize that found its session returns Ok
\* with the geometry set to its argument, or the error of the OS call or of
\* a poisoned master mutex with the geometry as it was.
C20_ResizeSilent ==
  [][\A c \in Callers :
       (call'[c] # call[c] /\ (call[c].op = "resize" \/ call'[c].op = "resize"))
         => /\ UNCHANGED <<events, sessions, next_id, input, killsig, child, removed>>
            /\ \A l \in Locks : l[1] \in {"writer", "killer"} => lock'[l] = lock[l]
            /\ call[c].pc # "io" => size' = size
            /\ call[c].pc \in {"guard", "io"} =>
                 LET h == call[c].h IN
                 /\ <<call[c].id, h>> \in sessions \/ call[c].id \in removed
                 /\ call'[c].pc = "idle" =>
                      \/ /\ call[c].pc = "io" /\ ret'.res = Ok
                         /\ size' = [size EXCEPT ![h] = call[c].arg]
                      \/ /\ ret'.res \in {OsError, PoisonedOf("master")}
                         /\ size' = size]_vars

\* A resize has set the geometry of a session and returned Ok while a
\* second resize on the same session is in progress; no event was emitted.
C20_Witness ==
  /\ ret.op = "resize" /\ ret.res = Ok /\ ret.id \in Keys(sessions)
  /\ \E d \in Callers, h \in Handles :
       /\ call[d].op = "resize" /\ call[d].pc = "guard" /\ call[d].h = h
       /\ sid[h] = ret.id /\ size[h] \in Geometries /\ events[h] = <<>>


\* ---------------------------------------------------------------------
\* WebDAV URLs (webdav_url.rs).  A string is a sequence of one-character
\* strings; an Option<&str> is a set of at most one string.

\* The longest path, in segments, of the URLs that are resolved.
MaxSegs == 3

Slash == "/"
Space == " "
HostsDb == <<"h", "o", "s", "t", "s", ".", "d", "b">>
HostsJson == <<"h", "o", "s", "t", "s", ".", "j", "s", "o", "n">>
DotDb == <<".", "d", "b">>
DotJson == <<".", "j", "s", "o", "n">>
DotSqlite == <<".", "s", "q", "l", "i", "t", "e">>

\* The scheme and host of the URLs resolved: "https://h".
Origin == <<"h", "t", "t", "p", "s", ":", "/", "/", "h">>

\* Result<String, String>
UrlOk(v) == [ok |-> TRUE, v |-> v, err |-> ""]
UrlErr(e) == [ok |-> FALSE, v |-> <<>>, err |-> e]
Pending == [ok |-> FALSE, v |-> <<>>, err |-> "pending"]
NotConfigured == UrlErr("WebDAV URL not configured")
InvalidUrl == UrlErr("Invalid WebDAV URL")

\* str::starts_with, str::ends_with
starts_with(s, pre) ==
  Len(pre) <= Len(s) /\ SubSeq(s, 1, Len(pre)) = pre
ends_with(s, suf) ==
  Len(suf) <= Len(s) /\ SubSeq(s, Len(s) - Len(suf) + 1, Len(s)) = suf

\* str::trim_matches(c): the string without its leading and trailing c.
RECURSIVE trim_matches(_, _)
trim_matches(s, c) ==
  IF s = <<>> THEN s
  ELSE IF Head(s) = c THEN trim_matches(Tail(s), c)
  ELSE IF s[Len(s)] = c THEN trim_matches(SubSeq(s, 1, Len(s) - 1), c)
  ELSE s

\* str::trim: the string without its leading and trailing white space.
trim(s) == trim_matches(s, Space)

\* Option::unwrap_or("")
unwrap_or_empty(o) == IF o = {} THEN <<>> ELSE CHOOSE x \in o : TRUE

\* str::split('/'): the pieces between the slashes, at least one.
RECURSIVE split(_)
split(s) ==
  IF s = <<>> THEN << <<>> >>
  ELSE LET rest == split(Tail(s)) IN
       IF Head(s) = Slash THEN << <<>> >> \o rest
       ELSE << <<Head(s)>> \o rest[1] >> \o Tail(rest)

\* path.rsplit('/').next().unwrap_or(""): what follows the last slash.
last_seg(path) == LET p == split(path) IN p[Len(p)]

\* The serialization of a list of segments: a slash before each.
RECURSIVE JoinPath(_)
JoinPath(segs) ==
  IF segs = <<>> THEN <<>>
  ELSE <<Slash>> \o Head(segs) \o JoinPath(Tail(segs))

\* The path state of the URL parser for a special scheme: ".." removes the
\* segment before it, "." is dropped, and either of them in the last place
\* leaves an empty last segment.
RECURSIVE Normalize(_, _)
Normalize(acc, segs) ==
  IF segs = <<>> THEN acc
  ELSE LET seg == Head(segs)
           last == Len(segs) = 1
           kept == IF seg = <<".", ".">>
                     THEN IF acc = <<>> THEN acc ELSE SubSeq(acc, 1, Len(acc) - 1)
                     ELSE acc
           next == IF seg \in {<<".">>, <<".", ".">>}
                     THEN IF last THEN kept \o << <<>> >> ELSE kept
                     ELSE acc \o <<seg>>
       IN Normalize(next, Tail(segs))

\* Url::parse(raw) followed by url.path(): the path of a URL of the origin
\* (an empty path becomes "/"); any other string has no scheme and is an error.
ParsePath(raw) ==
  LET rest == SubSeq(raw, Len(Origin) + 1, Len(raw)) IN
  IF rest = <<>> THEN <<Slash>>
  ELSE JoinPath(Normalize(<<>>, split(Tail(rest))))

Parses(raw) ==
  /\ starts_with(raw, Origin)
  /\ Len(raw) > Len(Origin) => raw[Len(Origin) + 1] = Slash

\* url.to_string()
url_to_string(path) == Origin \o path

\* pop_if_empty without its effect.
pop_if_emptyKeep(path) == path

\* PathSegmentsMut::pop_if_empty: removes one trailing slash, except the first.
pop_if_empty(path) ==
  IF Len(path) <= 1 THEN path
  ELSE IF path[Len(path)] = Slash THEN SubSeq(path, 1, Len(path) - 1)
  ELSE path

\* PathSegmentsMut::pop: cuts the path before its last slash after the
\* first character (rfind counts from 0); without such a slash, and with
\* that slash in the first place, the first slash alone is left.
pop(path) ==
  IF Len(path) <= 1 THEN path
  ELSE LET after == SubSeq(path, 2, Len(path))
           slashes == {i \in 1..Len(after) : after[i] = Slash}
           last_slash == IF slashes = {} THEN 0
                         ELSE (CHOOSE i \in slashes : \A j \in slashes : j <= i) - 1
       IN SubSeq(path, 1, 1 + last_slash)

\* The percent-encoding of a pushed segment: a slash, a percent sign and a
\* space are escaped, every other character of the model is kept.
RECURSIVE encode(_)
encode(seg) ==
  IF seg = <<>> THEN <<>>
  ELSE (CASE Head(seg) = Slash -> <<"%", "2", "F">>
          [] Head(seg) = "%" -> <<"%", "2", "5">>
          [] Head(seg) = Space -> <<"%", "2", "0">>
          [] OTHER -> <<Head(seg)>>) \o encode(Tail(seg))

\* PathSegmentsMut::push: "." and ".." are skipped; a slash is added unless
\* the path is the first slash alone; then the encoded segment.
push(path, seg) ==
  IF seg \in {<<".">>, <<".", ".">>} THEN path
  ELSE (IF Len(path) > 1 \/ Len(path) = 0 THEN path \o <<Slash>> ELSE path)
         \o encode(seg)

\* last_seg.ends_with(".db") || .ends_with(".json") || .ends_with(".sqlite")
looks_like_file(seg) ==
  ends_with(seg, DotDb) \/ ends_with(seg, DotJson) \/ ends_with(seg, DotSqlite)

\* webdav_resolve_url(input, filename)
webdav_resolve_url(inp, filename) ==
  LET raw == trim(inp) IN
  IF raw = <<>> THEN NotConfigured
  ELSE IF ~Parses(raw) THEN InvalidUrl
  ELSE LET path == ParsePath(raw)
           last == last_seg(path)
       IN IF last = filename THEN UrlOk(url_to_string(path))
          ELSE IF ends_with(path, <<Slash>>) \/ last = <<>>
            THEN UrlOk(url_to_string(push(pop_if_empty(path), filename)))
          ELSE IF looks_like_file(last)
            THEN UrlOk(url_to_string(push(pop(path), filename)))
          ELSE UrlOk(url_to_string(push(path, filename)))

\* webdav_resolve_url_with_folder(input, folder, filename)
webdav_resolve_url_with_folder(inp, folder_opt, filename) ==
  LET raw == trim(inp)
      folder == trim_matches(trim(unwrap_or_empty(folder_opt)), Slash)
  IN
  IF raw = <<>> THEN NotConfigured
  ELSE IF ~Parses(raw) THEN InvalidUrl
  ELSE LET path0 == ParsePath(raw) IN
       IF looks_like_file(last_seg(path0)) THEN webdav_resolve_url(raw, filename)
       ELSE LET base == pop_if_empty(path0)
                dir == IF folder # <<>> THEN push(base, folder) ELSE base
            IN UrlOk(url_to_string(push(dir, filename)))

\* The segments the URLs to resolve are made of.
SegsIn ==
  { <<>>, <<"d">>, <<".">>, <<".", ".">>, HostsDb,
    <<"x", ".", "d", "b">>, <<"c", ".", "j", "s", "o", "n">>,
    <<"s", ".", "s", "q", "l", "i", "t", "e">> }

\* The paths of up to MaxSegs segments, as typed.
PathsIn ==
  UNION { { JoinPath(p) : p \in [1..k -> SegsIn] } : k \in 0..MaxSegs }

\* The URLs configured: of the origin with every path, some with white
\* space around them, blank ones, and one without a scheme.
UrlsIn ==
  { Origin \o p : p \in PathsIn }
    \cup { <<Space>> \o Origin \o JoinPath(<<seg>>) \o <<Space>> : seg \in SegsIn }
    \cup { <<>>, <<Space>>, <<"d">> }

\* The folders configured: none, blank, plain, with slashes or spaces
\* around, the dot segments, and one of two segments.
FoldersIn ==
  { {}, {<<>>}, {<<"f">>}, {<<Slash, "f", Slash>>}, {<<Space, "f", Space>>},
    {<<".">>}, {<<".", ".">>}, {<<"a", Slash, "b">>} }

FilenamesIn == {HostsDb, HostsJson}

UrlArgs ==
  { [input |-> i, folder |-> f, filename |-> n, res |-> Pending, resf |-> Pending] :
      i \in UrlsIn, f \in FoldersIn, n \in FilenamesIn }

\* A call of webdav_resolve_url on the configured URL.
ResolveUrl ==
  /\ url.res = Pending
  /\ url' = [url EXCEPT !.res = webdav_resolve_url(url.input, url.filename)]
  /\ UNCHANGED <<ptyVars, storeVars, dav>>

\* A call of webdav_resolve_url_with_folder on the configured URL and folder.
ResolveUrlWithFolder ==
  /\ url.resf = Pending
  /\ url' = [url EXCEPT !.resf =
               webdav_resolve_url_with_folder(url.input, url.folder, url.filename)]
  /\ UNCHANGED <<ptyVars, storeVars, dav>>

InitUrl == PtyInit /\ StoreIdle /\ dav = NoPush /\ url \in UrlArgs

NextUrl == ResolveUrl \/ ResolveUrlWithFolder

SpecUrl == InitUrl /\ [][NextUrl]_vars


\* ---------------------------------------------------------------------
\* Properties of the WebDAV URLs.

\* The configured URL parses, and this is its path.
UrlParses == Parses(trim(url.input))
UrlPath == ParsePath(trim(url.input))

\* The segments of a path: the pieces after its first slash.
SegsOf(path) == split(Tail(path))

\* The path of a resolved URL.
PathOf(r) == SubSeq(r.v, Len(Origin) + 1, Len(r.v))

\* The folder as the resolver uses it, without space and slashes around.
FolderUsed == trim_matches(trim(unwrap_or_empty(url.folder)), Slash)
SingleSegmentFolder ==
  FolderUsed # <<>> /\ \A i \in 1..Len(FolderUsed) : FolderUsed[i] # Slash

\* The segments of a path without its trailing slash.
DropLast(segs) == SubSeq(segs, 1, Len(segs) - 1)
BaseSegs ==
  LET s == SegsOf(UrlPath) IN IF s[Len(s)] = <<>> THEN DropLast(s) ELSE s

HasEmpty(segs) == \E i \in 1..Len(segs) : segs[i] = <<>>

\* The case of C21: a base URL that does not end in a file-like segment,
\* a single-segment folder, and the call has returned.
C21_Case ==
  /\ url.resf # Pending /\ UrlParses
  /\ ~looks_like_file(last_seg(UrlPath))
  /\ SingleSegmentFolder

C21_BaseKept ==
  LET s == SegsOf(UrlPath)
      s1 == IF Len(s) > 1 /\ s[Len(s)] = <<>> THEN DropLast(s) ELSE s
  IN IF s1 = << <<>> >> THEN <<>> ELSE s1

C22_Case == UrlParses /\ looks_like_file(last_seg(UrlPath))

\* The URL with its last segment replaced by the filename.
C22_Replaced ==
  UrlOk(Origin \o JoinPath(DropLast(SegsOf(UrlPath)) \o <<url.filename>>))

\* C22: for a URL whose last path segment ends in .db, .json or .sqlite,
\* webdav_resolve_url and webdav_resolve_url_with_folder both return the URL
\* with that segment replaced by the filename and the parent path kept,
\* whatever the folder.
C22_FileReplaced ==
  C22_Case =>
    /\ url.res # Pending => url.res = C22_Replaced
    /\ url.resf # Pending => url.resf = C22_Replaced


\* ---------------------------------------------------------------------
\* The hosts and their passwords (host_store.rs, credential_store.rs).
\* The hosts of a list, the rows of the table and the entries of the
\* credential store are kept by host id: None where there is none.

\* How a call of keychain_set_password or keychain_delete_password goes:
\* well, or delete_credential fails, or set_password fails.
Outcomes == {"ok", "delete_err", "set_err"}

\* How a get_password goes.
ReadOutcomes == {"ok", "err"}

\* keychain_set_password without the entry it writes.
keychain_set_passwordLost(kc, id, pw, o) ==
  [ok |-> o = "ok", kc |-> kc]

\* keychain_set_password: delete_credential, then set_password.
keychain_set_password(kc, id, pw, o) ==
  IF o = "delete_err" THEN [ok |-> FALSE, kc |-> kc]
  ELSE IF o = "set_err" THEN [ok |-> FALSE, kc |-> [kc EXCEPT ![id] = None]]
  ELSE [ok |-> TRUE, kc |-> [kc EXCEPT ![id] = Some(pw)]]

\* keychain_has_password: a password that is read and is not blank.
keychain_has_password(kc, id, r) ==
  r = "ok" /\ kc[id] # None /\ trim(Unwrap(kc[id])) # <<>>

\* keychain_delete_password: no entry is a success.
keychain_delete_password(kc, id, o) ==
  IF o = "ok" THEN [ok |-> TRUE, kc |-> [kc EXCEPT ![id] = None]]
  ELSE [ok |-> FALSE, kc |-> kc]

NoRows == [id \in HostIds |-> None]

\* The loop of import_hosts_json_to_db from the host `id` on, inside the
\* transaction: the password goes to the credential store, the row is
\* inserted with a NULL password; the first error ends it.
RECURSIVE import_loop(_, _, _, _, _, _)
import_loop(id, hosts, kc, rows, o, r) ==
  IF id > MaxHosts THEN [ok |-> TRUE, kc |-> kc, rows |-> rows]
  ELSE IF hosts[id] = None THEN import_loop(id + 1, hosts, kc, rows, o, r)
  ELSE
    LET h == Unwrap(hosts[id])
        pwt == trim(Unwrap(h.password))
        del == keychain_delete_password(kc, id, o[id])
        set == keychain_set_password(kc, id, pwt, o[id])
        step == IF h.password # None
                  THEN IF pwt = <<>>
                         THEN [ok |-> del.ok, kc |-> del.kc, has_password |-> FALSE]
                         ELSE [ok |-> set.ok, kc |-> set.kc, has_password |-> TRUE]
                  ELSE [ok |-> TRUE, kc |-> kc,
                        has_password |-> keychain_has_password(kc, id, r[id])]
        row == [password |-> None, has_password |-> step.has_password]
    IN IF ~step.ok THEN [ok |-> FALSE, kc |-> step.kc, rows |-> rows]
       ELSE import_loop(id + 1, hosts, step.kc, [rows EXCEPT ![id] = Some(row)], o, r)

\* import_hosts_json_to_db on an open database: DELETE FROM hosts and the
\* loop in one transaction, committed when every host went well.
import_hosts_json_to_db(db, kc, hosts, o, r) ==
  LET tx == import_loop(1, hosts, kc, NoRows, o, r) IN
  [ok |-> tx.ok, kc |-> tx.kc,
   db |-> [exists |-> TRUE, rows |-> IF tx.ok THEN tx.rows ELSE db.rows]]

\* The loop of migrate_db_passwords_to_keychain over the rows selected, those
\* with a password that is not NULL and not ''.
RECURSIVE migrate_loop(_, _, _, _, _)
migrate_loop(id, selected, kc, rows, o) ==
  IF id > MaxHosts THEN [kc |-> kc, rows |-> rows]
  ELSE IF selected[id] = None \/ Unwrap(selected[id]).password \in {None, Some(<<>>)}
    THEN migrate_loop(id + 1, selected, kc, rows, o)
  ELSE
    LET has_pw == Unwrap(selected[id]).has_password
        pwt == trim(Unwrap(Unwrap(selected[id]).password))
        set == keychain_set_password(kc, id, pwt, o[id])
        cleared == [Unwrap(rows[id]) EXCEPT !.password = None]
        moved == [password |-> None, has_password |-> TRUE]
    IN IF has_pw
         THEN migrate_loop(id + 1, selected, kc, [rows EXCEPT ![id] = Some(cleared)], o)
       ELSE IF pwt = <<>> THEN migrate_loop(id + 1, selected, kc, rows, o)
       ELSE IF set.ok
         THEN migrate_loop(id + 1, selected, set.kc, [rows EXCEPT ![id] = Some(moved)], o)
       ELSE migrate_loop(id + 1, selected, set.kc, rows, o)

migrate_db_passwords_to_keychain(db, kc, o) ==
  migrate_loop(1, db.rows, kc, db.rows, o)

\* hosts_load: without hosts.db and with hosts.json, the hosts of hosts.json
\* are imported and returned; otherwise the passwords of the rows are
\* migrated and the rows are returned.
hosts_load(db, json, kc, o, r) ==
  IF ~db.exists /\ json # None
    THEN LET hosts == Unwrap(json)
             imp == import_hosts_json_to_db(db, kc, hosts, o, r)
         IN [ok |-> imp.ok, hosts |-> IF imp.ok THEN hosts ELSE NoRows,
             kc |-> imp.kc, db |-> imp.db]
    ELSE LET m == migrate_db_passwords_to_keychain(db, kc, o)
             host(id) == [password |-> None,
                          has_password |-> keychain_has_password(m.kc, id, r[id])]
         IN [ok |-> TRUE,
             hosts |-> [id \in HostIds |->
                          IF m.rows[id] = None THEN None ELSE Some(host(id))],
             kc |-> m.kc, db |-> [exists |-> TRUE, rows |-> m.rows]]

\* The passwords typed: blank, and "p" with space around it.
Blank == <<Space>>
Typed == <<Space, "p", Space>>
PasswordsIn == {None, Some(Blank), Some(Typed)}

\* A host of a payload: its password field and its has_password flag.
HostIn == [password : PasswordsIn, has_password : BOOLEAN]
HostsIn == [HostIds -> {None} \cup {Some(h) : h \in HostIn}]

\* hosts.json as the program finds it: absent, or with one host.
JsonIn ==
  {None} \cup {Some(hosts) : hosts \in {hs \in HostsIn : \A id \in HostIds : id > 1 => hs[id] = None}}

\* The credential store as the program finds it: "q" for some hosts.
KeychainIn == [HostIds -> {None, Some(<<"q">>)}]

\* The rows of a hosts.db on the server: a password in the row or not, with
\* any has_password.
RowIn == [password : {None, Some(<<"p">>)}, has_password : BOOLEAN]
RowsIn == [HostIds -> {None} \cup {Some(row) : row \in RowIn}]

Command(op, ok, hosts, rows0) ==
  [op |-> op, ok |-> ok, hosts |-> hosts, kc0 |-> keychain, rows0 |-> rows0]

\* The command hosts_load.
HostsLoad ==
  \E o \in [HostIds -> Outcomes], r \in [HostIds -> ReadOutcomes] :
    LET res == hosts_load(hosts_db, hosts_json, keychain, o, r) IN
    /\ hosts_db' = res.db
    /\ keychain' = res.kc
    /\ done' = Command("hosts_load", res.ok, res.hosts, hosts_db.rows)
    /\ UNCHANGED <<ptyVars, url, dav, hosts_json>>

\* The command hosts_save: the database is opened, the hosts are imported,
\* the ssh config is generated.
HostsSave ==
  \E hosts \in HostsIn, o \in [HostIds -> Outcomes], r \in [HostIds -> ReadOutcomes],
     config \in BOOLEAN :
    LET imp == import_hosts_json_to_db(hosts_db, keychain, hosts, o, r) IN
    /\ hosts_db' = imp.db
    /\ keychain' = imp.kc
    /\ done' = Command("hosts_save", imp.ok /\ config, hosts, hosts_db.rows)
    /\ UNCHANGED <<ptyVars, url, dav, hosts_json>>

\* The command webdav_pull when the server has no hosts.json: the hosts.db
\* of the server replaces the local one, then hosts_load.
WebdavPullDb ==
  \E rows \in RowsIn, o \in [HostIds -> Outcomes], r \in [HostIds -> ReadOutcomes] :
    LET res == hosts_load([exists |-> TRUE, rows |-> rows], hosts_json, keychain, o, r) IN
    /\ hosts_db' = res.db
    /\ keychain' = res.kc
    /\ done' = Command("webdav_pull", res.ok, res.hosts, rows)
    /\ UNCHANGED <<ptyVars, url, dav, hosts_json>>

\* The command host_password_set: a blank password deletes the entry.
HostPasswordSet ==
  \E id \in HostIds, pw \in {Blank, Typed}, o \in Outcomes :
    LET res == IF trim(pw) = <<>> THEN keychain_delete_password(keychain, id, o)
               ELSE keychain_set_password(keychain, id, trim(pw), o)
    IN
    /\ keychain' = res.kc
    /\ done' = Command("host_password_set", res.ok, NoRows, hosts_db.rows)
    /\ UNCHANGED <<ptyVars, url, dav, hosts_db, hosts_json>>

InitHosts ==
  /\ PtyInit /\ url = NoUrl /\ dav = NoPush
  /\ hosts_db = NoDb
  /\ hosts_json \in JsonIn
  /\ keychain \in KeychainIn
  /\ done = NoCommand

NextHosts == HostsLoad \/ HostsSave \/ WebdavPullDb \/ HostPasswordSet

SpecHosts == InitHosts /\ [][NextHosts]_vars

\* ---------------------------------------------------------------------
\* webdav_push (webdav_sync.rs): the requests it sends, one at a time.

\* The answers of the server to MKCOL and to PUT.
Created == "201"
NotAllowed == "405"
Conflict == "409"
MkcolAnswers == {Created, NotAllowed, Conflict}
PutAnswers == {Created, Conflict}

\* status.is_success()
is_success(status) == status = Created

\* A path with a slash at its end: p.push('/'); set_path(&p).
with_slash(path) == IF ends_with(path, <<Slash>>) THEN path ELSE path \o <<Slash>>

\* folder.split('/').filter(|s| !s.is_empty())
parts_of(folder) == SelectSeq(split(folder), LAMBDA seg : seg # <<>>)

\* The base of webdav_ensure_remote_folder: the path of the URL, without its
\* last segment when that is file-like, with a slash at its end.
ensure_base(raw) ==
  LET path0 == ParsePath(raw)
      dir == IF ~ends_with(path0, <<Slash>>) /\ looks_like_file(last_seg(path0))
               THEN pop(path0) ELSE path0
  IN with_slash(dir)

\* The collection of one more part: pop_if_empty, push, a slash at the end.
ensure_next(cur, part) == with_slash(push(pop_if_empty(cur), part))

Request(method, to, status) == [method |-> method, url |-> to, status |-> status]

\* webdav_push up to its first request: the database is made if it is
\* missing and the hosts are loaded, the two URLs are resolved, and
\* webdav_ensure_remote_folder starts (with no folder there is no MKCOL).
PushBegin ==
  /\ dav.pc = "idle"
  /\ \E raw \in UrlsIn, folder_opt \in FoldersIn :
     \E url_db \in {webdav_resolve_url_with_folder(raw, folder_opt, HostsDb)},
        url_json \in {webdav_resolve_url_with_folder(raw, folder_opt, HostsJson)},
        folder \in {trim_matches(trim(unwrap_or_empty(folder_opt)), Slash)} :
     \E o \in [HostIds -> Outcomes], r \in [HostIds -> ReadOutcomes] :
     \E made \in {IF hosts_db.exists
                    THEN [ok |-> TRUE, hosts |-> NoRows, kc |-> keychain, db |-> hosts_db]
                    ELSE hosts_load(hosts_db, hosts_json, keychain, o, r)} :
     \E loaded \in {IF made.ok THEN hosts_load(made.db, hosts_json, made.kc, o, r)
                    ELSE made} :
       LET failed == ~loaded.ok \/ ~url_db.ok \/ ~url_json.ok IN
       /\ hosts_db' = loaded.db
       /\ keychain' = loaded.kc
       /\ dav' = [dav EXCEPT
                    !.pc = IF failed THEN "done"
                           ELSE IF folder = <<>> THEN "put_db" ELSE "mkcol",
                    !.res = IF failed THEN "err" ELSE "none",
                    !.folder = folder,
                    !.url_db = url_db.v,
                    !.url_json = url_json.v,
                    !.cur = IF failed \/ folder = <<>> THEN <<>> ELSE ensure_base(trim(raw)),
                    !.parts = IF failed THEN <<>> ELSE parts_of(folder)]
       /\ UNCHANGED <<ptyVars, url, hosts_json, done>>

\* One turn of the loop of webdav_ensure_remote_folder: MKCOL of the next
\* collection; any answer but success and 405 ends the push with an error.
PushMkcol ==
  /\ dav.pc = "mkcol"
  /\ \E status \in MkcolAnswers :
    LET cur == ensure_next(dav.cur, Head(dav.parts))
        go == is_success(status) \/ status = NotAllowed
    IN
    /\ dav' = [dav EXCEPT
                 !.cur = cur,
                 !.parts = Tail(dav.parts),
                 !.log = Append(dav.log, Request("MKCOL", url_to_string(cur), status)),
                 !.pc = IF ~go THEN "done"
                        ELSE IF Tail(dav.parts) = <<>> THEN "put_db" ELSE "mkcol",
                 !.res = IF go THEN "none" ELSE "err"]
    /\ UNCHANGED <<ptyVars, url, storeVars>>

\* PUT of hosts.db.
PushPutDb ==
  /\ dav.pc = "put_db"
  /\ \E status \in PutAnswers :
    /\ dav' = [dav EXCEPT
                 !.log = Append(dav.log, Request("PUT", dav.url_db, status)),
                 !.pc = IF is_success(status) THEN "put_json" ELSE "done",
                 !.res = IF is_success(status) THEN "none" ELSE "err"]
    /\ UNCHANGED <<ptyVars, url, storeVars>>

\* PUT of hosts.json.
PushPutJson ==
  /\ dav.pc = "put_json"
  /\ \E status \in PutAnswers :
    /\ dav' = [dav EXCEPT
                 !.log = Append(dav.log, Request("PUT", dav.url_json, status)),
                 !.pc = "done",
                 !.res = IF is_success(status) THEN "ok" ELSE "err"]
    /\ UNCHANGED <<ptyVars, url, storeVars>>

NextPush == PushBegin \/ PushMkcol \/ PushPutDb \/ PushPutJson

SpecPush == Init /\ [][NextPush]_vars


\* ---------------------------------------------------------------------
\* Properties of the hosts and their passwords.

\* The hosts of the last command: those it was given or those it returned.
HostOf(id) == Unwrap(done.hosts[id])
InHosts(id) == done.hosts[id] # None
RowOf(id) == Unwrap(hosts_db.rows[id])

\* The credential store holds a password that is not blank.
Holds(kc, id) == kc[id] # None /\ trim(Unwrap(kc[id])) # <<>>

\* C23: no host that hosts_load returns has a password field, on the path
\* through the database and on the import of hosts.json alike.
C23_NoPlaintextReturned ==
  (done.op = "hosts_load" /\ done.ok) =>
    \A id \in HostIds : InHosts(id) => HostOf(id).password = None


\* C24: after a save, a host that was saved with no password field and
\* has_password = false has no entry in the credential store.
C24_AbsentPasswordDeletes ==
  (done.op = "hosts_save" /\ done.ok) =>
    \A id \in HostIds :
      (InHosts(id) /\ HostOf(id).password = None /\ ~HostOf(id).has_password)
        => keychain[id] = None


\* What C25 says of the host `id` of a save: the password field decides the
\* entry of the credential store, and the row has a NULL password.
C25_EntryRule(id) ==
  LET h == HostOf(id) IN
  /\ hosts_db.rows[id] # None /\ RowOf(id).password = None
  /\ (h.password # None /\ trim(Unwrap(h.password)) # <<>>)
       => keychain[id] = Some(trim(Unwrap(h.password))) /\ RowOf(id).has_password
  /\ (h.password # None /\ trim(Unwrap(h.password)) = <<>>)
       => keychain[id] = None /\ ~RowOf(id).has_password
  /\ h.password = None => keychain[id] = done.kc0[id]

HadPlaintext(id) ==
  /\ done.rows0[id] # None
  /\ Unwrap(done.rows0[id]).password \notin {None, Some(<<>>)}

\* C29: after a migration (in hosts_load, also the one that ends
\* webdav_pull), a row whose plaintext password was set to NULL has a
\* password in the credential store.
C29_NullOnlyIfStored ==
  (done.op \in {"hosts_load", "webdav_pull"}) =>
    \A id \in HostIds :
      (HadPlaintext(id) /\ hosts_db.rows[id] # None /\ RowOf(id).password = None)
        => Holds(keychain, id)


\* ---------------------------------------------------------------------
\* Properties of webdav_push.

\* The requests of one method, in order.
Sent(method) == SelectSeq(dav.log, LAMBDA q : q.method = method)

\* The collection a URL is in: the URL up to its last slash.
ParentOf(u) ==
  LET slashes == {i \in 1..Len(u) : u[i] = Slash} IN
  SubSeq(u, 1, CHOOSE i \in slashes : \A j \in slashes : j <= i)

\* C26: every PUT of a push comes after all its MKCOL, each of which was
\* answered with success or 405, and with a folder configured the last
\* MKCOL was for the collection the PUT is in.
C26_PutInCreatedFolder ==
  \A i \in 1..Len(dav.log) :
    dav.log[i].method = "PUT" =>
      /\ dav.parts = <<>>
      /\ \A j \in 1..Len(dav.log) :
           dav.log[j].method = "MKCOL" =>
             j < i /\ dav.log[j].status \in {Created, NotAllowed}
      /\ dav.folder # <<>> =>
           /\ Sent("MKCOL") # <<>>
           /\ Sent("MKCOL")[Len(Sent("MKCOL"))].url = ParentOf(dav.log[i].url)


\* ---------------------------------------------------------------------
\* Properties of the threads of a session.

\* C27: a step of the reader thread of a session leaves the registry, the
\* id counter and every mutex as they are; a read of bytes, well-formed or
\* not, is followed by one data event with their lossy decoding and by the
\* next read; the first read of zero bytes or with an error ends the
\* thread, which then takes no step, and no data event is emitted for the
\* session after that.
C27_ReaderStopsAtEndOnly ==
  [][\A h \in Handles :
       /\ reader'[h] # reader[h] =>
            /\ UNCHANGED <<sessions, next_id, lock, poisoned, removed>>
            /\ reader[h].pc \in {"none", "read", "emit"}
            /\ reader[h].pc = "read" =>
                 \/ /\ reader'[h].pc = "emit" /\ reader'[h].buf # <<>>
                    /\ events' = events
                 \/ /\ reader'[h].pc = "done" /\ out[h] = <<>>
                    /\ events' = events
            /\ reader[h].pc = "emit" =>
                 /\ reader'[h].pc = "read"
                 /\ events'[h] = Append(events[h], DataEvent(h, reader[h].buf))
       /\ reader[h].pc = "done" =>
            /\ reader'[h] = reader[h]
            /\ SelectSeq(events'[h], LAMBDA e : e.type = "data") = DataOf(h)]_vars

\* The reader of a session has stopped at the end of the output after two
\* reads: the first returned a stray continuation byte and its data event
\* carries the replacement character, the second returned "a" and was
\* emitted as well.
C27_Witness ==
  /\ reader[1].pc = "done" /\ child[1] = "dead"
  /\ chunks[1] = <<<<169>>, <<97>>>>
  /\ Len(DataOf(1)) = 2
  /\ DataOf(1)[1].data = Replacement /\ DataOf(1)[2].data = <<97>>


\* The exit events of a session.
ExitsOf(h) == SelectSeq(events[h], LAMBDA e : e.type = "exit")

\* C28: the code of an exit event is the exit code of the child, which is
\* dead, or the sentinel 1; it is 0 only when the child reported 0.
C28_ExitCodeOrSentinel ==
  \A h \in Handles : \A i \in 1..Len(ExitsOf(h)) :
    LET code == ExitsOf(h)[i].code IN
    /\ child[h] = "dead"
    /\ code \in {exitcode[h], ExitSentinel}
    /\ code = 0 => exitcode[h] = 0
    /\ ExitSentinel # 0

\* Two children have exited with code 0; the exit event of one carries 0,
\* the wait for the other failed and its exit event carries the sentinel.
C28_Witness ==
  \E h, g \in Handles :
    /\ exitcode[h] = 0 /\ ExitsOf(h) # <<>> /\ ExitsOf(h)[1].code = 0
    /\ exitcode[g] = 0 /\ ExitsOf(g) # <<>> /\ ExitsOf(g)[1].code = ExitSentinel


\* C30: the exit event of a session has been emitted when its entry is
\* removed, so when a write, resize or kill returns UnknownSession for an id
\* that a spawn has returned, the exit event for that id has been emitted.
C30_UnknownAfterExit ==
  /\ \A h \in Handles :
       (waiter[h].pc \in {"lock", "remove"} \/ sid[h] \in removed) => ExitEmitted(h)
  /\ (ret.op \in Ops /\ ret.res = UnknownSession /\ ret.id \in ReturnedIds)
       => ExitEmittedFor(ret.id)

\* A resize on an id a spawn returned has got UnknownSession; the exit event
\* for the id is among the events.
C30_Witness ==
  /\ ret.op = "resize" /\ ret.res = UnknownSession /\ ret.id \in ReturnedIds
  /\ ret.id \in removed /\ ExitEmittedFor(ret.id)

\* The spawn of h is past both fallible steps and its reader thread runs.
SpawnFinishing(h) ==
  \E c \in Callers : call[c].op = "spawn" /\ call[c].h = h /\ call[c].pc = "waiter"
ReturnedStrings == {returned[i] : i \in 1..Len(returned)}

\* C31: every data or exit event carries the id fetch_add gave to the spawn
\* of its session, an id below the counter; that spawn has returned Ok or
\* is past its last fallible step, and the id was inserted into the
\* registry before the event was emitted.  A spawn that returns an error
\* has started no thread and no event carries its id.
C31_EventsOnlyForRegistered ==
  /\ [](\A h \in Handles : \A i \in 1..Len(events[h]) :
          /\ events[h][i].session_id = to_string(sid[h])
          /\ sid[h] \in IssuedIds
          /\ Less(sid[h], next_id)
          /\ sid[h] \in Keys(sessions) \cup removed
          /\ to_string(sid[h]) \in ReturnedStrings \/ SpawnFinishing(h))
  /\ [][\A h \in Handles :
          events'[h] # events[h]
            => /\ sid[h] \in Keys(sessions) \cup removed
               /\ to_string(sid[h]) \in ReturnedStrings \/ SpawnFinishing(h)]_vars
  /\ [][(ret'.op = "spawn" /\ ret'.res # Ok /\ ret'.id # NoId)
          => \A h \in Handles :
               sid[h] = ret'.id
                 => /\ events'[h] = <<>>
                    /\ reader'[h].pc = "none" /\ waiter'[h].pc = "none"
                    /\ to_string(sid[h]) \notin ReturnedStrings]_vars

\* A spawn has just failed on the poisoned registry, holding an id, while
\* the session of an earlier spawn has emitted its output and its exit.
C31_Witness ==
  /\ ret.op = "spawn" /\ ret.res = StatePoisoned /\ ret.id = U32Of(2)
  /\ events[2] = <<>>
  /\ Len(events[1]) = 2 /\ events[1][1].type = "data" /\ events[1][2].type = "exit"

\* The mutexes the wait thread of h holds, and the one it is about to acquire.
HeldByWaiter(h) == {l \in Locks : lock[l] = Waiter(h)}
WantedByWaiter(h) == IF waiter[h].pc = "lock" THEN {SessionsLock} ELSE {}
\* The guard c is about to acquire is held by a write that is inside write_all.
BehindWrite(c) ==
  \E d \in Callers : /\ d # c /\ call[d].op = "write" /\ call[d].pc = "io"
                       /\ Wanted(c) \subseteq Held(d)

\* C32: no thread holds two guards at once; the registry guard is held
\* only at the map operation and a guard of a Session only at the OS call,
\* by a thread that no longer holds the registry guard; a thread that is
\* about to acquire a guard holds none, so no two threads wait for each
\* other; and every pending acquisition is granted, that of a guard of a
\* Session unless its holder is a write that stays inside write_all.
C32_OneGuardAtATime ==
  /\ [](\A c \in Callers :
          /\ Cardinality(Held(c)) <= 1
          /\ SessionsLock \in Held(c) => call[c].pc \in {"insert", "get"}
          /\ Held(c) \ {SessionsLock} # {}
               => call[c].pc = "io" /\ Held(c) = {<<GuardOf(call[c].op), call[c].h>>}
          /\ call[c].pc \in {"reader", "waiter", "guard", "io"} => SessionsLock \notin Held(c)
          /\ Wanted(c) # {} => Held(c) = {})
  /\ [](\A h \in Handles :
          /\ HeldByWaiter(h) \subseteq {SessionsLock}
          /\ HeldByWaiter(h) # {} => waiter[h].pc = "remove"
          /\ WantedByWaiter(h) # {} => HeldByWaiter(h) = {})
  /\ \A c \in Callers : (call[c].pc = "lock") ~> (call[c].pc \in {"insert", "get"})
  /\ \A c \in Callers : (call[c].pc = "guard") ~> (call[c].pc = "io" \/ BehindWrite(c))
  /\ \A h \in Handles : (waiter[h].pc = "lock") ~> (waiter[h].pc = "remove")

\* A kill has dropped the registry guard and holds the killer of a session;
\* a second kill on that session is about to acquire the same killer.
C32_Witness ==
  \E c, d \in Callers, h \in Handles :
    /\ c # d /\ call[c].op = "kill" /\ call[c].pc = "io" /\ Held(c) = {<<"killer", h>>}
    /\ call[d].op = "kill" /\ call[d].pc = "guard" /\ Wanted(d) = Held(c)
    /\ lock[SessionsLock] = Free

\* C33: with the counter wrapping at 2^32, a spawn never inserts under an
\* id that is a key of the registry, and the wait thread of a session never
\* removes an entry that is not its own.
C33_NoLiveIdReused ==
  /\ [][\A c \in Callers :
          (call[c].pc = "insert" /\ call'[c].pc = "reader")
            => call[c].id \notin Keys(sessions)]_vars
  /\ [][\A h \in Handles :
          (waiter[h].pc = "remove" /\ waiter'[h].pc = "done")
            => sessions \ sessions' \subseteq {<<sid[h], h>>}]_vars

\* The child of h is looked after: its session is or was in the registry,
\* its reader thread and its wait thread have been started, and its id has
\* been returned to the caller of its spawn.
Managed(h) ==
  /\ sid[h] \in Keys(sessions) \cup removed
  /\ reader[h].pc # "none" /\ waiter[h].pc # "none"
  /\ to_string(sid[h]) \in ReturnedStrings
\* The spawn that started the child of h has not returned yet.
Spawning(h) == \E c \in Callers : call[c].op = "spawn" /\ call[c].h = h

\* C34: when pty_spawn returns an error, every child that has been started
\* by a call that has returned is looked after, and every id taken from the
\* counter has been returned to a caller or belongs to a spawn in progress.
C34_NoUnmanagedChild ==
  [][(ret'.op = "spawn" /\ ret'.res # Ok)
       => \A h \in Handles :
            (child'[h] # "none" /\ ~Spawning(h)') => Managed(h)']_vars

\* The caller c holds a clone of the Arc<Session> of h: the spawn of h from
\* Arc::new to its return, a command from its lookup to its return.
HasClone(c, h) ==
  /\ call[c].h = h
  /\ \/ call[c].op = "spawn" /\ call[c].pc \in {"lock", "insert", "reader", "waiter"}
     \/ call[c].op \in Ops /\ call[c].pc \in {"guard", "io"}
\* The Session of h has been created and its last clone dropped: master,
\* writer and killer are released.
Released(h) == sid[h] # NoId /\ refs[h] = 0

\* C35: a command that found a Session in the registry holds a clone of
\* it until it returns, and acts on the guard and the resource of that
\* Session only, the one spawned under the id it was given; the clones of a
\* Session are those of its registry entry and of the calls in progress on
\* it, so the Session is released only when the entry is gone and every
\* such call has returned; and nothing of a released Session is locked or
\* changed, nor is it cloned again.
C35_OwnHandlesUntilReleased ==
  /\ [](\A h \in Handles :
          /\ refs[h] = Cardinality({e \in sessions : e[2] = h})
                         + Cardinality({c \in Callers : HasClone(c, h)})
          /\ Released(h) => \A l \in Locks : l[2] = h => lock[l] = Free)
  /\ [](\A c \in Callers :
          (call[c].op \in Ops /\ call[c].pc \in {"guard", "io"})
            => /\ call[c].h \in Handles
               /\ sid[call[c].h] = call[c].id
               /\ ~Released(call[c].h))
  /\ [][\A c \in Callers :
          (call[c].pc = "io" /\ call'[c] # call[c])
            => /\ lock[<<GuardOf(call[c].op), call[c].h>>] = Caller(c)
               /\ ret'.id = sid[call[c].h]
               /\ \A g \in Handles \ {call[c].h} :
                    size'[g] = size[g] /\ input'[g] = input[g] /\ killsig'[g] = killsig[g]]_vars
  /\ [][\A h \in Handles :
          Released(h)
            => /\ size'[h] = size[h] /\ input'[h] = input[h] /\ killsig'[h] = killsig[h]
               /\ refs'[h] = 0]_vars

\* A write that found its session before the wait thread removed the entry
\* has completed after the removal, on the input of that session; its
\* return dropped the last clone.
C35_Witness ==
  /\ ret.op = "write" /\ ret.res = Ok /\ ret.id \in removed /\ ~ret.afterRemoved
  /\ \E h \in Handles : sid[h] = ret.id /\ input[h] # <<>> /\ Released(h)

====
